---- MODULE Spec2Model ----
(***************************************************************************)
(* Gateway lifecycle reconciler                                            *)
(* (infra-cdk/lambdas/gateway-custom-resource/index.py).                   *)
(*                                                                         *)
(* One invocation of handler() is modelled as a sequential program whose   *)
(* position is pc; every call to the control plane, to the configuration   *)
(* store and to the ResponseURL is one step whose outcome (a result or an  *)
(* exception) is chosen by the environment.  Invocations follow one        *)
(* another; the control plane and the configuration store persist.         *)
(***************************************************************************)
EXTENDS Integers, Sequences, FiniteSets, TLC

\* ---------------------------------------------------------------- bounds
MaxGateways == 2        \* gateway ids the control plane hands out
MaxTargets == 2         \* target ids the control plane hands out
MaxInvocations == 3     \* lifecycle events handled one after another
MaxFaults == 2          \* calls per invocation the environment lets fail at will
MaxRacers == 2          \* Create invocations that run at the same time

\* ------------------------------------------------------ program constants
max_retries == 5        \* create_target_with_retry(max_retries=5)
max_wait == 120         \* wait_for_gateway_ready(max_wait=120)
PollSleep == 10         \* time.sleep(10) between two polls
DeleteSleep == 5        \* time.sleep(5) after each target delete
NONE == 0               \* event.get("PhysicalResourceId", "NONE")

Names == {"gasp", "other"}
GwIds == 1..MaxGateways
TargetIds == 1..MaxTargets
RequestTypes == {"Create", "Update", "Delete", "Replace"}
Latencies == {0, 10}    \* seconds one get_gateway poll can take
Statuses == {"CREATING", "UPDATING", "READY", "FAILED", "DELETING"}

\* str(e) of an exception, as the sequence of its words
ErrMsgs == { <<"Gateway", "is", "CREATING">>,
             <<"Gateway", "is", "UPDATING">>,
             <<"gateway", "is", "creating">>,
             <<"AccessDenied">> }

NoUrl == [kind |-> "none", id |-> 0]
ServiceUrl(g) == [kind |-> "service", id |-> g]
NoDetails == [gatewayId |-> 0, gatewayUrl |-> NoUrl]
NoData == [GatewayId |-> 0, GatewayUrl |-> NoUrl, TargetId |-> 0]
NoGateway == [exists |-> FALSE, name |-> "none", targets |-> <<>>]
NoPrev == [name |-> "none", creates |-> 0]
NoExc == <<>>
SsmKeys == {"gateway_url", "target_id", "gateway_id"}
NoParameters == [k \in SsmKeys |-> NoUrl]

VARIABLES
    gateways,        \* control plane: gateway id -> [exists, name, targets]
    nextGw,          \* control plane: next gateway id
    nextTarget,      \* control plane: next target id
    ssm,             \* configuration store: key -> value this invocation has put
    event,           \* the lifecycle event of the running invocation
    pc,              \* position of the invocation
    path,            \* which block the invocation runs in
    gateway_id, target_id, gateway_details,
    attempt, sleeps, \* create_target_with_retry: loop variable, pauses taken
    err,             \* create_target_with_retry: str(e) of the exception caught
    elapsed, status, \* wait_for_gateway_ready: time.time() - start_time, last status
    targets, idx,    \* delete_gateway: listed targets, loop position
    exc,             \* str(e) of the exception the handler caught
    raised,          \* an exception escaped handler()
    log,             \* mutating calls, pauses and callbacks issued, in order
    callbacks,       \* bodies PUT to ResponseURL, in order
    faults,          \* external calls of this invocation that raised an error
    found,           \* list_gateways returned a gateway named GatewayName
    fresh,           \* no gateway was named GatewayName when the invocation began
    prev,            \* the previous invocation, if a successful fresh Create
    invocations      \* how many invocations have begun

control == <<gateways, nextGw, nextTarget>>
retryv == <<attempt, sleeps, err>>
waitv == <<elapsed, status>>
deletev == <<targets, idx>>
locals == <<path, gateway_id, target_id, gateway_details, attempt, sleeps,
            err, elapsed, status, targets, idx, exc>>
keep == <<found, fresh, prev, invocations>>
hist == <<faults, found, fresh, prev, invocations>>

\* The feedback API (infra-cdk/lambdas/feedback/index.py)
VARIABLES
    fb_pc,           \* position of the feedback handler
    fb_event,        \* the API Gateway event being handled
    fb_message,      \* handler: message, after truncation
    fb_comment,      \* handler: comment, after truncation
    fb_exc,          \* the exception caught on line 182 or 187
    fb_written,      \* items put into the table for this request
    fb_response,     \* what handler() returns
    fb_nextId,       \* the next value uuid.uuid4() gives
    fb_requests      \* how many requests have been received

feedbackv == <<fb_pc, fb_event, fb_message, fb_comment, fb_exc, fb_written,
               fb_response, fb_nextId, fb_requests>>

gatewayv == <<gateways, nextGw, nextTarget, ssm, event, pc, path, gateway_id,
              target_id, gateway_details, attempt, sleeps, err, elapsed,
              status, targets, idx, exc, raised, log, callbacks, faults,
              found, fresh, prev, invocations>>

\* The agent entry point (patterns/strands-single-agent/basic_agent.py,
\* patterns/langgraph-single-agent/langgraph_agent.py) and the token exchange
\* it calls (gateway/utils/gateway_access_token.py)
VARIABLES
    ag_pc,           \* position of agent_stream
    ag_pattern,      \* which of the two patterns is deployed
    ag_payload,      \* the payload of the request
    ag_env,          \* how the environment answers this invocation
    ag_access_token, \* agent_stream / create_basic_agent: access_token
    ag_client,       \* the gateway tool client, once built and returned
    ag_exc,          \* str(e) of the exception caught by agent_stream
    ag_stream        \* the events agent_stream has yielded, in order

agentv == <<ag_pc, ag_pattern, ag_payload, ag_env, ag_access_token, ag_client,
            ag_exc, ag_stream>>

\* The token exchange run on its own
\* (gateway/utils/gateway_access_token.py get_gateway_access_token)
VARIABLES
    tk_pc,           \* position of get_gateway_access_token
    tk_env,          \* how the environment answers this call
    tk_posts,        \* requests.post calls this call has made
    tk_result,       \* what the call returned or raised
    tk_calls         \* how many calls have begun

tokenv == <<tk_pc, tk_env, tk_posts, tk_result, tk_calls>>

\* The sample tool (gateway/tools/sample_tool/sample_tool_lambda.py)
VARIABLES
    tool_event,      \* handler: event, the tool's arguments
    tool_context,    \* handler: context, as far as the handler reads it
    tool_result      \* what handler() returned

toolv == <<tool_event, tool_context, tool_result>>

\* Several Create invocations of the gateway reconciler running at once
\* (infra-cdk/lambdas/gateway-custom-resource/index.py create_gateway)
VARIABLES
    rc_proc,         \* invocation -> its position, event name and locals
    rc_gateways      \* control plane: the gateways created, in order

racev == <<rc_proc, rc_gateways>>

\* The deployment script (scripts/deploy-with-codebuild.py)
VARIABLES
    dp_pc,           \* position of the process: main, the atexit handler, gone
    dp_resources,    \* main: resources, the names kept for the atexit handler
    dp_made,         \* the temporary resources main has created
    dp_attempts,     \* cleanup_resources: the deletions attempted, in order
    dp_exit          \* how main ended

deployv == <<dp_pc, dp_resources, dp_made, dp_attempts, dp_exit>>

\* CodeInterpreterTools (tools/code_interpreter/code_interpreter_tools.py)
VARIABLES
    ci_code_client,  \* self._code_client: is one cached, did its start() succeed,
                     \* and the call that made it
    ci_starts,       \* start() calls since the last cleanup() call
    ci_last,         \* the last call made on the object and how it went
    ci_calls         \* how many calls have been made on the object

interpv == <<ci_code_client, ci_starts, ci_last, ci_calls>>

\* the components modelled after the agent entry point
laterv == <<tokenv, toolv, racev, deployv, interpv>>

vars == <<gatewayv, feedbackv, agentv, laterv>>

\* ------------------------------------------------- feedback API: the values
MaxRequests == 2            \* requests the feedback handler receives

MAX_SESSION_ID_LENGTH == 100
MAX_MESSAGE_LENGTH == 5000

\* A text is a sequence of runs: Run(c, n) is the character c, n times over.
Run(c, n) == [ch |-> c, n |-> n]

\* a text made of the one unit w
Word(w) == <<Run(w, 1)>>

\* JSON values: a string (its text in s), a number, a list of n elements,
\* null, or no value at all (the key is missing)
Str(s) == [t |-> "str", s |-> s, n |-> 0]
Num(k) == [t |-> "num", s |-> <<>>, n |-> k]
List(k) == [t |-> "list", s |-> <<>>, n |-> k]
Null == [t |-> "null", s |-> <<>>, n |-> 0]
Missing == [t |-> "missing", s |-> <<>>, n |-> 0]

\* the characters of [a-zA-Z0-9-_] that the requests use
AllowedChars == {"a", "Z", "7", "-", "_"}

SessionIds ==
    { Missing, Null, Str(<<>>), Num(5), List(1), List(101),
      Str(<<Run("a", 1)>>),
      Str(<<Run("a", 1), Run("-", 1), Run("_", 1), Run("7", 1), Run("Z", 1)>>),
      Str(<<Run("a", 1), Run("!", 1)>>),
      Str(<<Run("a", 1), Run("\n", 1)>>),
      Str(<<Run("\n", 1)>>),
      Str(<<Run("a", 1), Run("\n", 1), Run("a", 1)>>),
      Str(<<Run("a", 100)>>),
      Str(<<Run("a", 101)>>),
      Str(<<Run("a", 99), Run("\n", 1)>>) }

Messages ==
    { Missing, Str(<<>>), Num(5), List(2),
      Str(<<Run("m", 1)>>),
      Str(<<Run("m", 5000)>>),
      Str(<<Run("m", 4999), Run("x", 2)>>) }

FeedbackTypes ==
    { Missing, Str(<<>>), Num(1), Str(Word("positive")), Str(Word("negative")),
      Str(Word("neutral")) }

Comments ==
    { Missing, Null, Str(<<>>), Num(7), List(1),
      Str(<<Run("c", 1)>>),
      Str(<<Run("c", 5000)>>),
      Str(<<Run("c", 5000), Run("y", 1)>>) }

\* event['requestContext']['authorizer']['claims']: no authorizer, an empty
\* mapping, claims without sub, claims with sub
NoClaims == [present |-> FALSE, empty |-> TRUE, sub |-> "none"]
ClaimSets ==
    { NoClaims,
      [present |-> TRUE, empty |-> TRUE, sub |-> "none"],
      [present |-> TRUE, empty |-> FALSE, sub |-> "none"],
      [present |-> TRUE, empty |-> FALSE, sub |-> "user-1"] }

\* event['body']: None, '', text that is not JSON, JSON that is no object,
\* or a JSON object with these members
Body(kind, sid, msg, ft, cm) ==
    [kind |-> kind, sessionId |-> sid, message |-> msg, feedbackType |-> ft,
     comment |-> cm]

Bodies ==
    { Body(k, Missing, Missing, Missing, Missing) :
        k \in {"absent", "empty", "invalid", "null", "num", "str", "list"} }
    \cup
    { Body("object", sid, msg, ft, cm) :
        sid \in SessionIds, msg \in Messages, ft \in FeedbackTypes,
        cm \in Comments }

FeedbackEvents ==
    { [httpMethod |-> "OPTIONS", body |-> b, claims |-> NoClaims] :
        b \in {Body("absent", Missing, Missing, Missing, Missing)} }
    \cup
    { [httpMethod |-> "POST", body |-> b, claims |-> c] :
        b \in Bodies, c \in ClaimSets }

NoEvent == [httpMethod |-> "none",
            body |-> Body("absent", Missing, Missing, Missing, Missing),
            claims |-> NoClaims]

\* create_response(status_code, body), the body before json.dumps
Response(code, error, success, feedbackId) ==
    [statusCode |-> code,
     body |-> [error |-> error, success |-> success, feedbackId |-> feedbackId]]

NoResponse == Response(0, "none", FALSE, 0)

\* ------------------------------------------------ agent entry point: values
MaxChunks == 2              \* chunks the model produces for one request

Patterns == {"strands", "langgraph"}

\* payload.get(key): None when the key is absent, "" or a text otherwise
FieldValues == {"absent", "empty", "given"}
PayloadKeys == {"prompt", "userId", "runtimeSessionId"}
Payloads == [PayloadKeys -> FieldValues]
NoPayload == [k \in PayloadKeys |-> "absent"]

\* What the model produces: the i-th chunk carries i; a chunk holds JSON
\* values only, or also an object json.dumps cannot serialise.
ChunkKinds == {"json", "object"}
ChunkEvent(kind, n) == [status |-> "chunk", error |-> "", kind |-> kind, n |-> n]
ErrorEvent(msg) == [status |-> "error", error |-> msg, kind |-> "json", n |-> 0]
ChunkSeqs ==
    UNION { { [i \in 1..k |-> ChunkEvent(kinds[i], i)] :
                kinds \in [1..k -> ChunkKinds] } : k \in 0..MaxChunks }

\* How the environment answers one invocation
Envs == [stack_name : {"absent", "invalid", "ok"},   \* os.environ STACK_NAME
         memory_id : BOOLEAN,                        \* os.environ MEMORY_ID is set
         ssm : BOOLEAN,                              \* configuration store answers
         idp : {"200", "401", "500", "notoken", "emptytoken"},
                                                     \* the token endpoint's answer
         gateway : BOOLEAN,                          \* the gateway lists its tools
         memory : BOOLEAN,                           \* the memory service answers
         model : BOOLEAN,                            \* the model answers
         chunks : ChunkSeqs]
NoEnv == [stack_name |-> "absent", memory_id |-> FALSE, ssm |-> FALSE,
          idp |-> "401", gateway |-> FALSE, memory |-> FALSE, model |-> FALSE,
          chunks |-> <<>>]

\* Python values access_token can hold
NoValue == [t |-> "none", v |-> "none"]
StrValue(v) == [t |-> "str", v |-> v]
Coroutine(f) == [t |-> "coroutine", v |-> f]

NoClient == [url |-> "none", bearer |-> "none"]

\* the outcome of a call: the value returned, or str(e) of what it raised
Returned(v) == [raises |-> "none", value |-> v]
Raised(e) == [raises |-> e, value |-> NoValue]

\* ---------------------------------------------------------------- helpers
RECURSIVE Pow2(_)
Pow2(n) == IF n = 0 THEN 1 ELSE 2 * Pow2(n - 1)

\* "w in str(e)"
Contains(msg, w) == \E i \in 1..Len(msg) : msg[i] = w

\* Variant of Retryable that ignores case: C5 must tell it apart
Retryable_AnyCase(msg) ==
    \/ Contains(msg, "CREATING") \/ Contains(msg, "UPDATING")
    \/ Contains(msg, "creating") \/ Contains(msg, "updating")

\* line 204: the failure says the gateway is still being created or updated
Retryable(msg) == Contains(msg, "CREATING") \/ Contains(msg, "UPDATING")

\* Variant of WaitTime with a linear back-off: C4 must tell it apart
WaitTime_Linear(a) == a + 1

\* line 205: wait_time = 2**attempt
WaitTime(a) == Pow2(a)

\* Variant of Matching that finds no gateway: C2 must tell it apart
Matching_None(name) == {}

\* lines 51-52: the gateways of list_gateways whose name is gateway_name
Matching(name) == {g \in GwIds : gateways[g].exists /\ gateways[g].name = name}

Exists(g) == g \in GwIds /\ gateways[g].exists

HasTarget(g, t) ==
    Exists(g) /\ \E i \in 1..Len(gateways[g].targets) : gateways[g].targets[i] = t

Remove(s, t) == SelectSeq(s, LAMBDA x : x # t)

Entry(op, g, a, ok) == [op |-> op, gw |-> g, arg |-> a, ok |-> ok]

\* lines 62-67: the URL reported in Data, constructed when the service gave none
ReportedUrl(details, g) ==
    IF details.gatewayUrl # NoUrl THEN details.gatewayUrl
    ELSE [kind |-> "constructed", id |-> g]

\* Variant of ResponseBody that falls back on the gateway at hand: C29 must
\* tell it apart
ResponseBody_Current(st, reason, data, physical_resource_id) ==
    [Status |-> st,
     Reason |-> reason,
     PhysicalResourceId |->
        IF physical_resource_id # NONE THEN physical_resource_id
        ELSE IF gateway_id # 0 THEN gateway_id
        ELSE event.PhysicalResourceId,
     Data |-> data]

\* lines 293-302: the body send_response PUTs
ResponseBody(st, reason, data, physical_resource_id) ==
    [Status |-> st,
     Reason |-> reason,
     PhysicalResourceId |->
        IF physical_resource_id # NONE THEN physical_resource_id
        ELSE event.PhysicalResourceId,
     Data |-> data]

\* lines 306-312: the PUT; ok says whether http.request returned
Put(body, ok) ==
    /\ callbacks' = Append(callbacks, [body |-> body, ok |-> ok])
    /\ log' = Append(log, Entry("PUT", body.PhysicalResourceId,
                                Len(callbacks) + 1, ok))

\* An external call raises an error: because the environment lets it fail (at
\* most MaxFaults times per invocation), or because it must (must).
Fails(must) ==
    /\ faults < MaxFaults \/ must
    /\ faults' = IF faults < MaxFaults THEN faults + 1 ELSE faults

NoFault == UNCHANGED faults

\* handler() returns: its frame and those of the functions it called are gone
Discard ==
    /\ path' = "none"
    /\ gateway_id' = 0
    /\ target_id' = 0
    /\ gateway_details' = NoDetails
    /\ attempt' = 0
    /\ sleeps' = <<>>
    /\ err' = NoExc
    /\ elapsed' = 0
    /\ status' = "none"
    /\ targets' = <<>>
    /\ idx' = 0
    /\ exc' = NoExc

\* An exception leaves the current block: inside the try of lines 49-80 it is
\* caught on line 79 and create_gateway goes on with line 83; everywhere else
\* it reaches the except of handler(), line 35.
Raise(msg) ==
    IF path = "check"
    THEN pc' = "cg_create" /\ exc' = exc
    ELSE pc' = "h_except" /\ exc' = msg

\* create_or_update_target / create_target_with_retry return target_id
ReturnTarget == IF path = "update" THEN "ug_get" ELSE "ssm_url"

TypeOK ==
    /\ nextGw \in 1..(MaxGateways + 1)
    /\ nextTarget \in 1..(MaxTargets + 1)
    /\ pc \in STRING
    /\ raised \in BOOLEAN

Init ==
    /\ gateways = [g \in GwIds |-> NoGateway]
    /\ nextGw = 1
    /\ nextTarget = 1
    /\ ssm = NoParameters
    /\ event = [RequestType |-> "none", GatewayName |-> "none",
                OldGatewayName |-> "none", PhysicalResourceId |-> NONE,
                ApiSpecOk |-> TRUE]
    /\ pc = "idle"
    /\ path = "none"
    /\ gateway_id = 0
    /\ target_id = 0
    /\ gateway_details = NoDetails
    /\ attempt = 0
    /\ sleeps = <<>>
    /\ err = NoExc
    /\ elapsed = 0
    /\ status = "none"
    /\ targets = <<>>
    /\ idx = 0
    /\ exc = NoExc
    /\ raised = FALSE
    /\ log = <<>>
    /\ callbacks = <<>>
    /\ faults = 0
    /\ found = FALSE
    /\ fresh = TRUE
    /\ prev = NoPrev
    /\ invocations = 0
    /\ fb_pc = "idle"
    /\ fb_event = NoEvent
    /\ fb_message = Missing
    /\ fb_comment = Missing
    /\ fb_exc = "none"
    /\ fb_written = <<>>
    /\ fb_response = NoResponse
    /\ fb_nextId = 1
    /\ fb_requests = 0
    /\ ag_pc = "idle"
    /\ ag_pattern = "none"
    /\ ag_payload = NoPayload
    /\ ag_env = NoEnv
    /\ ag_access_token = NoValue
    /\ ag_client = NoClient
    /\ ag_exc = "none"
    /\ ag_stream = <<>>
    /\ tk_pc = "idle"
    /\ tk_env = NoEnv
    /\ tk_posts = 0
    /\ tk_result = Raised("pending")
    /\ tk_calls = 0
    /\ tool_event = [name |-> "absent"]
    /\ tool_context = [kind |-> "none", toolName |-> <<>>]
    /\ tool_result = [keys |-> {}, content |-> <<>>, error |-> <<>>]
    /\ rc_proc = [p \in 1..MaxRacers |->
                    [pc |-> "idle", name |-> "none", seen |-> {},
                     gateway_id |-> 0, faulted |-> FALSE, status |-> "none"]]
    /\ rc_gateways = <<>>
    /\ dp_pc = "main"
    /\ dp_resources = [r \in {"project", "role", "bucket"} |-> FALSE]
    /\ dp_made = {}
    /\ dp_attempts = <<>>
    /\ dp_exit = "running"
    /\ ci_code_client = [cached |-> FALSE, started |-> FALSE, made |-> 0]
    /\ ci_starts = 0
    /\ ci_last = [op |-> "__init__", outcome |-> "returned",
                  invoked |-> FALSE, on_started |-> FALSE]
    /\ ci_calls = 0

\* ------------------------------------------------- the lifecycle mechanism
\* The events the lifecycle mechanism can send in the current state.  An
\* Update names a gateway that exists, a Delete a gateway id handed out before
\* (or NONE, after a failed Create); OldResourceProperties carry the name
\* the gateway was created with.
Events ==
    {[RequestType |-> "Create", GatewayName |-> n, OldGatewayName |-> n,
      PhysicalResourceId |-> NONE, ApiSpecOk |-> a] :
        n \in Names, a \in BOOLEAN}
    \cup
    {[RequestType |-> "Update", GatewayName |-> n,
      OldGatewayName |-> gateways[g].name,
      PhysicalResourceId |-> g, ApiSpecOk |-> a] :
        g \in {x \in GwIds : gateways[x].exists}, n \in Names, a \in BOOLEAN}
    \cup
    {[RequestType |-> "Delete",
      GatewayName |-> IF g = NONE THEN "gasp" ELSE gateways[g].name,
      OldGatewayName |-> IF g = NONE THEN "gasp" ELSE gateways[g].name,
      PhysicalResourceId |-> g, ApiSpecOk |-> TRUE] :
        g \in 0..(nextGw - 1)}
    \cup
    {[RequestType |-> "Replace", GatewayName |-> "gasp",
      OldGatewayName |-> "gasp", PhysicalResourceId |-> NONE,
      ApiSpecOk |-> TRUE]}

\* a callback with this Status was PUT and http.request returned
Reported(st) ==
    \E i \in 1..Len(callbacks) :
        callbacks[i].ok /\ callbacks[i].body.Status = st

Count(op) == Cardinality({i \in 1..Len(log) : log[i].op = op})

\* The lifecycle mechanism invokes handler(event, context); the previous
\* invocation, if any, has returned.  The handler never reads the
\* configuration store, so ssm keeps only what the new invocation puts.
Invoke(e) ==
    /\ pc \in {"idle", "done"}
    /\ invocations < MaxInvocations
    /\ invocations' = invocations + 1
    /\ event' = e
    /\ pc' = "handler"
    /\ Discard
    /\ raised' = FALSE
    /\ log' = <<>>
    /\ callbacks' = <<>>
    /\ faults' = 0
    /\ found' = FALSE
    /\ fresh' = (Matching(e.GatewayName) = {})
    /\ prev' = IF /\ pc = "done"
                  /\ event.RequestType = "Create"
                  /\ fresh
                  /\ ~raised
                  /\ Reported("SUCCESS")
               THEN [name |-> event.GatewayName,
                     creates |-> Count("create_gateway")]
               ELSE NoPrev
    /\ ssm' = NoParameters
    /\ UNCHANGED control
    /\ UNCHANGED <<feedbackv, agentv, laterv>>

\* handler, lines 22-33
Dispatch ==
    /\ pc = "handler"
    /\ IF event.RequestType = "Create"
       THEN pc' = "create_gateway" /\ UNCHANGED <<exc, gateway_id, path>>
       ELSE IF event.RequestType = "Update"
       THEN pc' = "update_gateway" /\ UNCHANGED <<exc, gateway_id, path>>
       ELSE IF event.RequestType = "Delete"
       THEN /\ pc' = "dg_list"
            /\ path' = "delete"
            /\ gateway_id' = event.PhysicalResourceId
            /\ exc' = exc
       ELSE /\ pc' = "h_except"
            /\ exc' = <<"Unknown", "request", "type">>
            /\ UNCHANGED <<gateway_id, path>>
    /\ UNCHANGED <<control, ssm, event, target_id, gateway_details, retryv,
                   waitv, deletev, raised, log, callbacks, hist>>
    /\ UNCHANGED <<feedbackv, agentv, laterv>>

\* handler, lines 35-37: send_response(event, "FAILED", str(e))
HandlerExcept ==
    /\ pc = "h_except"
    /\ \E ok \in BOOLEAN :
        /\ Put(ResponseBody("FAILED", exc, NoData, NONE), ok)
        /\ raised' = ~ok
        /\ IF ok THEN NoFault ELSE Fails(FALSE)
    /\ pc' = "done"
    /\ Discard
    /\ UNCHANGED <<control, ssm, event, keep>>
    /\ UNCHANGED <<feedbackv, agentv, laterv>>

\* ---------------------------------------------------------- create_gateway
\* lines 40-46: json.loads(props["ApiSpec"]) is outside the try of line 49
CreateGatewayEntry ==
    /\ pc = "create_gateway"
    /\ IF event.ApiSpecOk
       THEN pc' = "cg_list" /\ path' = "check" /\ exc' = exc
       ELSE pc' = "h_except" /\ path' = path /\ exc' = <<"JSONDecodeError">>
    /\ UNCHANGED <<control, ssm, event, gateway_id, target_id,
                   gateway_details, retryv, waitv, deletev, raised, log,
                   callbacks, hist>>
    /\ UNCHANGED <<feedbackv, agentv, laterv>>

\* lines 49-54: list_gateways and the search for gateway_name.  The order of
\* the items is the service's, so any gateway of that name can be the first.
ListGateways ==
    /\ pc = "cg_list"
    /\ \/ /\ Fails(FALSE)                          \* caught on line 79
          /\ pc' = "cg_create"
          /\ UNCHANGED <<gateway_id, found>>
       \/ /\ Matching(event.GatewayName) = {}
          /\ pc' = "cg_create"
          /\ NoFault
          /\ UNCHANGED <<gateway_id, found>>
       \/ \E g \in Matching(event.GatewayName) :
            /\ gateway_id' = g
            /\ found' = TRUE
            /\ pc' = "cg_get"
            /\ NoFault
    /\ UNCHANGED <<control, ssm, event, path, target_id, gateway_details,
                   retryv, waitv, deletev, exc, raised, log, callbacks,
                   fresh, prev, invocations>>
    /\ UNCHANGED <<feedbackv, agentv, laterv>>

\* get_gateway(gatewayIdentifier=gateway_id) answers: the details, with or
\* without a gatewayUrl
GatewayDetails(g) ==
    {[gatewayId |-> g, gatewayUrl |-> u] : u \in {ServiceUrl(g), NoUrl}}

\* lines 55-57: get_gateway of the gateway found
GetExistingGateway ==
    /\ pc = "cg_get"
    /\ \/ /\ Exists(gateway_id)
          /\ gateway_details' \in GatewayDetails(gateway_id)
          /\ pc' = "cout_list"
          /\ exc' = exc
          /\ NoFault
       \/ /\ Fails(~Exists(gateway_id))
          /\ Raise(<<"get_gateway", "failed">>)
          /\ UNCHANGED gateway_details
    /\ UNCHANGED <<control, ssm, event, path, gateway_id, target_id, retryv,
                   waitv, deletev, raised, log, callbacks, keep>>
    /\ UNCHANGED <<feedbackv, agentv, laterv>>

\* lines 82-100: create_gateway of the control plane
CreateGateway ==
    /\ pc = "cg_create"
    /\ path' = "new"
    /\ \/ /\ nextGw <= MaxGateways
          /\ gateways' = [gateways EXCEPT ![nextGw] =
                [exists |-> TRUE, name |-> event.GatewayName,
                 targets |-> <<>>]]
          /\ nextGw' = nextGw + 1
          /\ gateway_id' = nextGw
          /\ log' = Append(log, Entry("create_gateway", nextGw, 0, TRUE))
          /\ pc' = "wfr"
          /\ exc' = exc
          /\ NoFault
       \/ /\ Fails(nextGw > MaxGateways)
          /\ log' = Append(log, Entry("create_gateway", 0, 0, FALSE))
          /\ pc' = "h_except"
          /\ exc' = <<"create_gateway", "failed">>
          /\ UNCHANGED <<gateways, nextGw, gateway_id>>
    /\ attempt' = 0
    /\ sleeps' = <<>>
    /\ err' = NoExc
    /\ elapsed' = 0
    /\ status' = "none"
    /\ target_id' = 0
    /\ gateway_details' = NoDetails
    /\ UNCHANGED <<nextTarget, ssm, event, deletev, raised, callbacks, keep>>
    /\ UNCHANGED <<feedbackv, agentv, laterv>>

\* Variant of WaitPoll that polls again without time.sleep(10): C6 must tell
\* it apart
WaitPoll_NoSleep ==
    /\ pc = "wfr"
    /\ elapsed < max_wait
    /\ \E s \in Statuses, lat \in Latencies :
          /\ Exists(gateway_id)
          /\ status' = s
          /\ IF s = "READY"
             THEN pc' = "cg_get_new" /\ elapsed' = 0 /\ exc' = exc
             ELSE IF s \in {"FAILED", "DELETING"}
             THEN /\ pc' = "h_except"
                  /\ exc' = <<"Gateway", "in", "unexpected", "status", s>>
                  /\ elapsed' = 0
             ELSE elapsed' = elapsed + lat /\ UNCHANGED <<pc, exc>>
    /\ UNCHANGED <<control, ssm, event, path, gateway_id, target_id,
                   gateway_details, retryv, deletev, raised, log, callbacks,
                   hist>>
    /\ UNCHANGED <<feedbackv, agentv, laterv>>

\* ---------------------------------------------------- wait_for_gateway_ready
\* lines 244-253: one pass of the loop.  The poll takes lat seconds.
WaitPoll ==
    /\ pc = "wfr"
    /\ elapsed < max_wait
    /\ \/ /\ Exists(gateway_id)
          /\ NoFault
          /\ \E s \in Statuses, lat \in Latencies :
                /\ status' = s
                /\ IF s = "READY"
                   THEN /\ pc' = "cg_get_new"
                        /\ elapsed' = 0
                        /\ exc' = exc
                   ELSE IF s \in {"FAILED", "DELETING"}
                   THEN /\ pc' = "h_except"
                        /\ exc' = <<"Gateway", "in", "unexpected", "status", s>>
                        /\ elapsed' = 0
                   ELSE /\ elapsed' = elapsed + lat + PollSleep
                        /\ UNCHANGED <<pc, exc>>
       \/ /\ Fails(~Exists(gateway_id))            \* get_gateway raised
          /\ pc' = "h_except"
          /\ exc' = <<"get_gateway", "failed">>
          /\ elapsed' = 0
          /\ UNCHANGED status
    /\ UNCHANGED <<control, ssm, event, path, gateway_id, target_id,
                   gateway_details, retryv, deletev, raised, log, callbacks,
                   keep>>
    /\ UNCHANGED <<feedbackv, agentv, laterv>>

\* Variant of WaitTimeout that goes on to line 103 after the timeout: C25
\* must tell it apart
WaitTimeout_Proceeds ==
    /\ pc = "wfr"
    /\ elapsed >= max_wait
    /\ pc' = "cg_get_new"
    /\ elapsed' = 0
    /\ UNCHANGED <<control, ssm, event, path, gateway_id, target_id,
                   gateway_details, retryv, status, deletev, exc, raised, log,
                   callbacks, hist>>
    /\ UNCHANGED <<feedbackv, agentv, laterv>>

\* line 255: max_wait seconds have passed
WaitTimeout ==
    /\ pc = "wfr"
    /\ elapsed >= max_wait
    /\ pc' = "h_except"
    /\ exc' = <<"Gateway", "not", "ready", "after", "120s">>
    /\ elapsed' = 0
    /\ UNCHANGED <<control, ssm, event, path, gateway_id, target_id,
                   gateway_details, retryv, status, deletev, raised, log,
                   callbacks, hist>>
    /\ UNCHANGED <<feedbackv, agentv, laterv>>

\* line 103: get_gateway of the gateway just created
GetNewGateway ==
    /\ pc = "cg_get_new"
    /\ \/ /\ Exists(gateway_id)
          /\ gateway_details' \in GatewayDetails(gateway_id)
          /\ pc' = "ctr_attempt"
          /\ exc' = exc
          /\ NoFault
       \/ /\ Fails(~Exists(gateway_id))
          /\ pc' = "h_except"
          /\ exc' = <<"get_gateway", "failed">>
          /\ UNCHANGED gateway_details
    /\ attempt' = 0
    /\ sleeps' = <<>>
    /\ err' = NoExc
    /\ elapsed' = 0
    /\ UNCHANGED <<control, ssm, event, path, gateway_id, target_id, status,
                   deletev, raised, log, callbacks, keep>>
    /\ UNCHANGED <<feedbackv, agentv, laterv>>

\* ------------------------------------------------- create_or_update_target
\* lines 215-218: list_gateway_targets; an exception is caught on line 236
ListTargets ==
    /\ pc = "cout_list"
    /\ \/ /\ Exists(gateway_id)
          /\ gateways[gateway_id].targets # <<>>
          /\ target_id' = Head(gateways[gateway_id].targets)
          /\ pc' = "cout_update"
          /\ NoFault
       \/ /\ Exists(gateway_id)
          /\ gateways[gateway_id].targets = <<>>
          /\ pc' = "ctr_attempt"
          /\ NoFault
          /\ UNCHANGED target_id
       \/ /\ Fails(~Exists(gateway_id))
          /\ pc' = "ctr_attempt"
          /\ UNCHANGED target_id
    /\ attempt' = 0
    /\ sleeps' = <<>>
    /\ err' = NoExc
    /\ UNCHANGED <<control, ssm, event, path, gateway_id, gateway_details,
                   waitv, deletev, exc, raised, log, callbacks, keep>>
    /\ UNCHANGED <<feedbackv, agentv, laterv>>

\* lines 219-235: update_gateway_target of the first target listed
UpdateTarget ==
    /\ pc = "cout_update"
    /\ \/ /\ HasTarget(gateway_id, target_id)
          /\ log' = Append(log, Entry("update_gateway_target", gateway_id,
                                      target_id, TRUE))
          /\ pc' = ReturnTarget
          /\ NoFault
       \/ /\ Fails(~HasTarget(gateway_id, target_id))
          /\ log' = Append(log, Entry("update_gateway_target", gateway_id,
                                      target_id, FALSE))
          /\ pc' = "ctr_attempt"
    /\ UNCHANGED <<control, ssm, event, path, gateway_id, target_id,
                   gateway_details, retryv, waitv, deletev, exc, raised,
                   callbacks, keep>>
    /\ UNCHANGED <<feedbackv, agentv, laterv>>

\* ------------------------------------------------ create_target_with_retry
\* lines 183-209: one pass of the loop, the call and its except clause.  The
\* control plane may answer "not ready" at any time.
CreateTargetAttempt ==
    /\ pc = "ctr_attempt"
    /\ attempt < max_retries
    /\ \/ /\ Exists(gateway_id)
          /\ nextTarget <= MaxTargets
          /\ gateways' = [gateways EXCEPT ![gateway_id].targets =
                                Append(@, nextTarget)]
          /\ nextTarget' = nextTarget + 1
          /\ target_id' = nextTarget
          /\ log' = Append(log, Entry("create_gateway_target", gateway_id,
                                      nextTarget, TRUE))
          /\ pc' = ReturnTarget
          /\ NoFault
          /\ attempt' = 0
          /\ sleeps' = <<>>
          /\ err' = NoExc
          /\ exc' = exc
       \/ \E msg \in ErrMsgs :
            /\ IF Retryable(msg)
               THEN /\ sleeps' = Append(sleeps, WaitTime(attempt))
                    /\ attempt' = attempt + 1
                    /\ err' = msg
                    /\ UNCHANGED <<pc, exc, faults>>
               ELSE /\ Fails(~Exists(gateway_id) \/ nextTarget > MaxTargets)
                    /\ Raise(msg)
                    /\ err' = msg
                    /\ UNCHANGED <<attempt, sleeps>>
            /\ UNCHANGED <<gateways, nextTarget, target_id, log>>
    /\ UNCHANGED <<nextGw, ssm, event, path, gateway_id, gateway_details,
                   waitv, deletev, raised, callbacks, keep>>
    /\ UNCHANGED <<feedbackv, agentv, laterv>>

\* line 211: every attempt was answered "not ready"
CreateTargetExhausted ==
    /\ pc = "ctr_attempt"
    /\ attempt >= max_retries
    /\ Raise(<<"Failed", "to", "create", "target", "after", "5", "attempts">>)
    /\ attempt' = 0
    /\ sleeps' = <<>>
    /\ err' = NoExc
    /\ UNCHANGED <<control, ssm, event, path, gateway_id, target_id,
                   gateway_details, waitv, deletev, raised, log, callbacks,
                   hist>>
    /\ UNCHANGED <<feedbackv, agentv, laterv>>

\* --------------------------------------------------- update_ssm_parameters
SsmValue(kind, id) == [kind |-> kind, id |-> id]

\* one put_parameter(Name=key, Value=value, Overwrite=True), then on to next
PutParameter(key, value, next) ==
    \/ /\ ssm' = [ssm EXCEPT ![key] = value]
       /\ log' = Append(log, Entry(key, gateway_id, value.id, TRUE))
       /\ pc' = next
       /\ exc' = exc
       /\ NoFault
    \/ /\ Fails(FALSE)
       /\ Raise(<<"put_parameter", "failed">>)
       /\ UNCHANGED <<ssm, log>>

\* lines 263-270: gateway_url is written only when get_gateway gave one
PutGatewayUrl ==
    /\ pc = "ssm_url"
    /\ IF gateway_details.gatewayUrl # NoUrl
       THEN PutParameter("gateway_url", gateway_details.gatewayUrl,
                         "ssm_target")
       ELSE /\ pc' = "ssm_target"
            /\ NoFault
            /\ UNCHANGED <<ssm, log, exc>>
    /\ UNCHANGED <<control, event, path, gateway_id, target_id,
                   gateway_details, retryv, waitv, deletev, raised, callbacks,
                   keep>>
    /\ UNCHANGED <<feedbackv, agentv, laterv>>

\* lines 272-274
PutTargetId ==
    /\ pc = "ssm_target"
    /\ PutParameter("target_id", SsmValue("target", target_id), "ssm_gateway")
    /\ UNCHANGED <<control, event, path, gateway_id, target_id,
                   gateway_details, retryv, waitv, deletev, raised, callbacks,
                   keep>>
    /\ UNCHANGED <<feedbackv, agentv, laterv>>

\* lines 276-281
PutGatewayId ==
    /\ pc = "ssm_gateway"
    /\ PutParameter("gateway_id",
                    SsmValue("gateway", gateway_details.gatewayId), "respond")
    /\ UNCHANGED <<control, event, path, gateway_id, target_id,
                   gateway_details, retryv, waitv, deletev, raised, callbacks,
                   keep>>
    /\ UNCHANGED <<feedbackv, agentv, laterv>>

\* lines 61-78, 107-124, 143-158: send_response(event, "SUCCESS", data=...)
RespondSuccess ==
    /\ pc = "respond"
    /\ \E ok \in BOOLEAN :
        /\ Put(ResponseBody("SUCCESS", <<"SUCCESS">>,
                    [GatewayId |-> gateway_id,
                     GatewayUrl |-> ReportedUrl(gateway_details, gateway_id),
                     TargetId |-> target_id],
                    gateway_id), ok)
        /\ IF ok
           THEN /\ pc' = "done"
                /\ NoFault
                /\ Discard
           ELSE /\ Fails(FALSE)
                /\ Raise(<<"PUT", "failed">>)
                /\ UNCHANGED <<path, gateway_id, target_id, gateway_details,
                               retryv, waitv, deletev>>
    /\ UNCHANGED <<control, ssm, event, raised, keep>>
    /\ UNCHANGED <<feedbackv, agentv, laterv>>

\* ---------------------------------------------------------- update_gateway
\* lines 127-139
UpdateGatewayEntry ==
    /\ pc = "update_gateway"
    /\ gateway_id' = event.PhysicalResourceId
    /\ IF ~event.ApiSpecOk
       THEN pc' = "h_except" /\ exc' = <<"JSONDecodeError">> /\ path' = path
       ELSE IF event.OldGatewayName # event.GatewayName
       THEN pc' = "dg_list" /\ path' = "delete" /\ exc' = exc
       ELSE pc' = "cout_list" /\ path' = "update" /\ exc' = exc
    /\ UNCHANGED <<control, ssm, event, target_id, gateway_details, retryv,
                   waitv, deletev, raised, log, callbacks, hist>>
    /\ UNCHANGED <<feedbackv, agentv, laterv>>

\* line 140: get_gateway after the target was reconciled
UpdateGetGateway ==
    /\ pc = "ug_get"
    /\ \/ /\ Exists(gateway_id)
          /\ gateway_details' \in GatewayDetails(gateway_id)
          /\ pc' = "ssm_url"
          /\ exc' = exc
          /\ NoFault
       \/ /\ Fails(~Exists(gateway_id))
          /\ Raise(<<"get_gateway", "failed">>)
          /\ UNCHANGED gateway_details
    /\ UNCHANGED <<control, ssm, event, path, gateway_id, target_id, retryv,
                   waitv, deletev, raised, log, callbacks, keep>>
    /\ UNCHANGED <<feedbackv, agentv, laterv>>

\* ---------------------------------------------------------- delete_gateway
\* Variant of DeleteListTargets whose exception is not caught: C8 must tell it
\* apart
DeleteListTargets_Raises ==
    /\ pc = "dg_list"
    /\ \/ /\ Exists(gateway_id)
          /\ targets' = gateways[gateway_id].targets
          /\ idx' = 0
          /\ pc' = "dg_loop"
          /\ exc' = exc
          /\ NoFault
       \/ /\ Fails(~Exists(gateway_id))
          /\ pc' = "h_except"
          /\ exc' = <<"list_gateway_targets", "failed">>
          /\ UNCHANGED <<targets, idx>>
    /\ UNCHANGED <<control, ssm, event, path, gateway_id, target_id,
                   gateway_details, retryv, waitv, raised, log, callbacks,
                   keep>>
    /\ UNCHANGED <<feedbackv, agentv, laterv>>

\* lines 162-166: list_gateway_targets; an exception is caught on line 174
DeleteListTargets ==
    /\ pc = "dg_list"
    /\ \/ /\ Exists(gateway_id)
          /\ targets' = gateways[gateway_id].targets
          /\ idx' = 0
          /\ pc' = "dg_loop"
          /\ NoFault
       \/ /\ Fails(~Exists(gateway_id))
          /\ pc' = "dg_respond"
          /\ UNCHANGED <<targets, idx>>
    /\ UNCHANGED <<control, ssm, event, path, gateway_id, target_id,
                   gateway_details, retryv, waitv, exc, raised, log,
                   callbacks, keep>>
    /\ UNCHANGED <<feedbackv, agentv, laterv>>

\* lines 167-171: delete_gateway_target of the next listed target, time.sleep(5)
DeleteTarget ==
    /\ pc = "dg_loop"
    /\ idx < Len(targets)
    /\ LET t == targets[idx + 1] IN
       \/ /\ HasTarget(gateway_id, t)
          /\ gateways' = [gateways EXCEPT ![gateway_id].targets = Remove(@, t)]
          /\ log' = log \o <<Entry("delete_gateway_target", gateway_id, t, TRUE),
                             Entry("sleep", gateway_id, DeleteSleep, TRUE)>>
          /\ idx' = idx + 1
          /\ pc' = pc
          /\ NoFault
       \/ /\ Fails(~HasTarget(gateway_id, t))
          /\ log' = Append(log, Entry("delete_gateway_target", gateway_id, t,
                                      FALSE))
          /\ pc' = "dg_respond"
          /\ UNCHANGED <<gateways, idx>>
    /\ UNCHANGED <<nextGw, nextTarget, ssm, event, path, gateway_id,
                   target_id, gateway_details, retryv, waitv, targets, exc,
                   raised, callbacks, keep>>
    /\ UNCHANGED <<feedbackv, agentv, laterv>>

\* Variant of DeleteGatewayCall that does not wait for the loop to end: C7
\* must tell it apart
DeleteGatewayCall_Early ==
    /\ pc = "dg_loop"
    /\ \/ /\ Exists(gateway_id)
          /\ gateways' = [gateways EXCEPT ![gateway_id].exists = FALSE,
                                          ![gateway_id].targets = <<>>]
          /\ log' = Append(log, Entry("delete_gateway", gateway_id, 0, TRUE))
          /\ NoFault
       \/ /\ Fails(~Exists(gateway_id))
          /\ log' = Append(log, Entry("delete_gateway", gateway_id, 0, FALSE))
          /\ UNCHANGED gateways
    /\ pc' = "dg_respond"
    /\ UNCHANGED <<nextGw, nextTarget, ssm, event, path, gateway_id,
                   target_id, gateway_details, retryv, waitv, deletev, exc,
                   raised, callbacks, keep>>
    /\ UNCHANGED <<feedbackv, agentv, laterv>>

\* line 173: delete_gateway, after the loop
DeleteGatewayCall ==
    /\ pc = "dg_loop"
    /\ idx >= Len(targets)
    /\ \/ /\ Exists(gateway_id)
          /\ gateways' = [gateways EXCEPT ![gateway_id].exists = FALSE,
                                          ![gateway_id].targets = <<>>]
          /\ log' = Append(log, Entry("delete_gateway", gateway_id, 0, TRUE))
          /\ NoFault
       \/ /\ Fails(~Exists(gateway_id))
          /\ log' = Append(log, Entry("delete_gateway", gateway_id, 0, FALSE))
          /\ UNCHANGED gateways
    /\ pc' = "dg_respond"
    /\ UNCHANGED <<nextGw, nextTarget, ssm, event, path, gateway_id,
                   target_id, gateway_details, retryv, waitv, deletev, exc,
                   raised, callbacks, keep>>
    /\ UNCHANGED <<feedbackv, agentv, laterv>>

\* line 177: send_response(event, "SUCCESS", physical_resource_id=gateway_id);
\* update_gateway then goes on with create_gateway (line 137)
DeleteRespond ==
    /\ pc = "dg_respond"
    /\ \E ok \in BOOLEAN :
        /\ Put(ResponseBody("SUCCESS", <<"SUCCESS">>, NoData, gateway_id), ok)
        /\ IF ok
           THEN /\ pc' = IF event.RequestType = "Update"
                         THEN "create_gateway" ELSE "done"
                /\ NoFault
                /\ Discard
           ELSE /\ Fails(FALSE)
                /\ pc' = "h_except"
                /\ exc' = <<"PUT", "failed">>
                /\ targets' = <<>>
                /\ idx' = 0
                /\ UNCHANGED <<path, gateway_id, target_id, gateway_details,
                               retryv, waitv>>
    /\ UNCHANGED <<control, ssm, event, raised, keep>>
    /\ UNCHANGED <<feedbackv, agentv, laterv>>

\* ------------------------------------------------------------ specification
Step ==
    \/ Dispatch
    \/ CreateGatewayEntry
    \/ ListGateways
    \/ GetExistingGateway
    \/ CreateGateway
    \/ WaitPoll
    \/ WaitTimeout
    \/ GetNewGateway
    \/ ListTargets
    \/ UpdateTarget
    \/ CreateTargetAttempt
    \/ CreateTargetExhausted
    \/ PutGatewayUrl
    \/ PutTargetId
    \/ PutGatewayId
    \/ RespondSuccess
    \/ UpdateGatewayEntry
    \/ UpdateGetGateway
    \/ DeleteListTargets
    \/ DeleteTarget
    \/ DeleteGatewayCall
    \/ DeleteRespond
    \/ HandlerExcept

Next == (\E e \in Events : Invoke(e)) \/ Step

Spec == Init /\ [][Next]_vars

\* A running invocation keeps running: the interpreter executes handler()
\* statement after statement.  Nothing obliges the lifecycle mechanism to
\* send a further event.
FairSpec == Spec /\ WF_vars(Step)

\* ================================================================ feedback
\* infra-cdk/lambdas/feedback/index.py
Truthy(v) ==
    CASE v.t = "str" -> v.s # <<>>
      [] v.t \in {"num", "list"} -> v.n # 0
      [] OTHER -> FALSE

RECURSIVE Length(_)
Length(s) == IF s = <<>> THEN 0 ELSE Head(s).n + Length(Tail(s))

\* len(v) is defined for strings and lists; anything else is a TypeError
HasLen(v) == v.t \in {"str", "list"}

PyLen(v) == IF v.t = "str" THEN Length(v.s) ELSE v.n

\* the first k characters of a text
RECURSIVE Take(_, _)
Take(s, k) ==
    IF k = 0 \/ s = <<>> THEN <<>>
    ELSE IF Head(s).n <= k
         THEN <<Head(s)>> \o Take(Tail(s), k - Head(s).n)
         ELSE <<Run(Head(s).ch, k)>>

\* v[:k]
Slice(v, k) ==
    IF v.t = "str" THEN Str(Take(v.s, k))
    ELSE List(IF v.n <= k THEN v.n ELSE k)

\* SESSION_ID_PATTERN.match(s) for ^[a-zA-Z0-9-_]+$ : one or more characters
\* of the class from the start, up to the end of the text or up to the one
\* newline that ends it ($ matches there as well)
SessionIdMatches(s) ==
    LET stem == IF s # <<>> /\ s[Len(s)] = Run("\n", 1)
                THEN SubSeq(s, 1, Len(s) - 1)
                ELSE s
    IN  /\ stem # <<>>
        /\ \A i \in 1..Len(stem) : stem[i].ch \in AllowedChars

RequiredMsg == "sessionId, message, and feedbackType are required"
FeedbackTypeMsg == "feedbackType must be either \"positive\" or \"negative\""
SessionIdMsg ==
    "sessionId must be alphanumeric with hyphens/underscores and max 100 characters"

\* what a piece of code comes to: it raises, returns an error, or neither
Outcome(raises, error) == [raises |-> raises, error |-> error]

\* Variant of validate_feedback_request that accepts any feedbackType: C13
\* must tell it apart
validate_feedback_request_AnyType(body) ==
    IF \/ ~Truthy(body.sessionId)
       \/ ~Truthy(body.message)
       \/ ~Truthy(body.feedbackType)
    THEN Outcome("none", RequiredMsg)
    ELSE IF ~HasLen(body.sessionId)
    THEN Outcome("TypeError", "none")
    ELSE IF PyLen(body.sessionId) > MAX_SESSION_ID_LENGTH
    THEN Outcome("none", SessionIdMsg)
    ELSE IF body.sessionId.t # "str"
    THEN Outcome("TypeError", "none")
    ELSE IF ~SessionIdMatches(body.sessionId.s)
    THEN Outcome("none", SessionIdMsg)
    ELSE Outcome("none", "none")

\* lines 77-103
validate_feedback_request(body) ==
    IF \/ ~Truthy(body.sessionId)
       \/ ~Truthy(body.message)
       \/ ~Truthy(body.feedbackType)
    THEN Outcome("none", RequiredMsg)
    ELSE IF body.feedbackType \notin {Str(Word("positive")), Str(Word("negative"))}
    THEN Outcome("none", FeedbackTypeMsg)
    ELSE IF ~HasLen(body.sessionId)
    THEN Outcome("TypeError", "none")
    ELSE IF PyLen(body.sessionId) > MAX_SESSION_ID_LENGTH
    THEN Outcome("none", SessionIdMsg)
    ELSE IF body.sessionId.t # "str"
    THEN Outcome("TypeError", "none")
    ELSE IF ~SessionIdMatches(body.sessionId.s)
    THEN Outcome("none", SessionIdMsg)
    ELSE Outcome("none", "none")

\* line 143: body.get('comment', '')
GetComment(body) ==
    IF body.comment.t = "missing" THEN Str(<<>>) ELSE body.comment

\* Variant of Truncate that cuts one character too late: C16 must tell it
\* apart
Truncate_OneMore(v) ==
    IF PyLen(v) > MAX_MESSAGE_LENGTH + 1
    THEN Slice(v, MAX_MESSAGE_LENGTH + 1) ELSE v

\* lines 139-140, 144-145: cut to MAX_MESSAGE_LENGTH
Truncate(v) ==
    IF PyLen(v) > MAX_MESSAGE_LENGTH THEN Slice(v, MAX_MESSAGE_LENGTH) ELSE v

\* Variant of HasClaims that takes every request for an authenticated one:
\* C17 must tell it apart
HasClaims_Always(e) == TRUE

\* lines 148-152: claims is there and is not empty
HasClaims(e) == e.claims.present /\ ~e.claims.empty

\* API Gateway invokes handler(event, context)
FbReceive ==
    /\ fb_pc = "idle"
    /\ fb_requests < MaxRequests
    /\ fb_requests' = fb_requests + 1
    /\ fb_event' \in FeedbackEvents
    /\ fb_pc' = "handler"
    /\ UNCHANGED <<fb_message, fb_comment, fb_exc, fb_written, fb_response,
                   fb_nextId>>
    /\ UNCHANGED <<gatewayv, agentv, laterv>>

FbRespond(code, error) ==
    /\ fb_response' = Response(code, error, FALSE, 0)
    /\ fb_pc' = "responded"
    /\ UNCHANGED <<fb_message, fb_comment, fb_exc>>

FbRaise(e) ==
    /\ fb_exc' = e
    /\ fb_pc' = "except"
    /\ UNCHANGED <<fb_message, fb_comment, fb_response>>

\* lines 117-155: everything before the identifier is generated
FbCheck ==
    /\ fb_pc = "handler"
    /\ LET body == fb_event.body
           v == validate_feedback_request(body)
           comment == GetComment(body)
       IN  IF fb_event.httpMethod = "OPTIONS"
           THEN FbRespond(200, "none")
           ELSE IF body.kind \in {"absent", "empty"}
           THEN FbRespond(400, "Request body is required")
           ELSE IF body.kind = "invalid"
           THEN FbRespond(400, "Invalid JSON format")
           ELSE IF body.kind # "object"
           THEN FbRaise("AttributeError")
           ELSE IF v.raises # "none"
           THEN FbRaise(v.raises)
           ELSE IF v.error # "none"
           THEN FbRespond(400, v.error)
           ELSE IF ~HasLen(body.message)
           THEN FbRaise("TypeError")
           ELSE IF Truthy(comment) /\ ~HasLen(comment)
           THEN FbRaise("TypeError")
           ELSE IF ~HasClaims(fb_event)
           THEN /\ fb_response' = Response(401, "Unauthorized", FALSE, 0)
                /\ fb_pc' = "responded"
                /\ fb_message' = Truncate(body.message)
                /\ fb_comment' = IF Truthy(comment) THEN Truncate(comment)
                                 ELSE comment
                /\ UNCHANGED fb_exc
           ELSE /\ fb_pc' = "put_item"
                /\ fb_message' = Truncate(body.message)
                /\ fb_comment' = IF Truthy(comment) THEN Truncate(comment)
                                 ELSE comment
                /\ UNCHANGED <<fb_exc, fb_response>>
    /\ UNCHANGED <<fb_event, fb_written, fb_nextId, fb_requests>>
    /\ UNCHANGED <<gatewayv, agentv, laterv>>

Timestamps == {1000, 2000}

\* errors of the table that put_item raises as ClientError, and one that is
\* no ClientError
ClientErrors == {"ProvisionedThroughputExceededException",
                 "ResourceNotFoundException"}
OtherErrors == {"EndpointConnectionError"}

\* Variant of Item keyed by another identifier than the one returned: C18
\* must tell it apart
Item_OtherId(feedback_id, timestamp) ==
    [feedbackId |-> feedback_id + 1,
     sessionId |-> fb_event.body.sessionId,
     message |-> fb_message,
     userId |-> IF fb_event.claims.sub # "none" THEN fb_event.claims.sub
                ELSE "unknown",
     feedbackType |-> fb_event.body.feedbackType,
     timestamp |-> timestamp,
     comment |-> IF Truthy(fb_comment) THEN fb_comment ELSE Missing]

\* lines 155-173
Item(feedback_id, timestamp) ==
    [feedbackId |-> feedback_id,
     sessionId |-> fb_event.body.sessionId,
     message |-> fb_message,
     userId |-> IF fb_event.claims.sub # "none" THEN fb_event.claims.sub
                ELSE "unknown",
     feedbackType |-> fb_event.body.feedbackType,
     timestamp |-> timestamp,
     comment |-> IF Truthy(fb_comment) THEN fb_comment ELSE Missing]

\* every {'S': ...} of the item holds a string: put_item accepts the request
WellTyped(item) ==
    /\ item.sessionId.t = "str"
    /\ item.message.t = "str"
    /\ item.feedbackType.t = "str"
    /\ item.comment.t \in {"str", "missing"}

\* lines 157-180: uuid4, the item, put_item, the 200.  put_item writes the
\* item and returns, or raises and writes nothing.
FbPutItem ==
    /\ fb_pc = "put_item"
    /\ fb_nextId' = fb_nextId + 1
    /\ \E ts \in Timestamps :
        LET item == Item(fb_nextId, ts) IN
        \/ /\ WellTyped(item)
           /\ fb_written' = Append(fb_written, item)
           /\ fb_response' = Response(200, "none", TRUE, fb_nextId)
           /\ fb_pc' = "responded"
           /\ UNCHANGED fb_exc
        \/ /\ fb_exc' \in IF WellTyped(item) THEN ClientErrors \cup OtherErrors
                         ELSE {"ParamValidationError"}
           /\ fb_pc' = "except"
           /\ UNCHANGED <<fb_written, fb_response>>
    /\ UNCHANGED <<fb_event, fb_message, fb_comment, fb_requests>>
    /\ UNCHANGED <<gatewayv, agentv, laterv>>

\* Variant of FbExcept that reports the exception: C19 must tell it apart
FbExcept_Leaks ==
    /\ fb_pc = "except"
    /\ fb_response' = Response(500, fb_exc, FALSE, 0)
    /\ fb_pc' = "responded"
    /\ UNCHANGED <<fb_event, fb_message, fb_comment, fb_exc, fb_written,
                   fb_nextId, fb_requests>>
    /\ UNCHANGED <<gatewayv, agentv, laterv>>

\* lines 182-190: both except clauses
FbExcept ==
    /\ fb_pc = "except"
    /\ fb_response' = Response(500, "Internal server error", FALSE, 0)
    /\ fb_pc' = "responded"
    /\ UNCHANGED <<fb_event, fb_message, fb_comment, fb_exc, fb_written,
                   fb_nextId, fb_requests>>
    /\ UNCHANGED <<gatewayv, agentv, laterv>>

\* the response has gone to API Gateway; the next request starts afresh
FbReturn ==
    /\ fb_pc = "responded"
    /\ fb_pc' = "idle"
    /\ fb_event' = NoEvent
    /\ fb_message' = Missing
    /\ fb_comment' = Missing
    /\ fb_exc' = "none"
    /\ fb_written' = <<>>
    /\ fb_response' = NoResponse
    /\ UNCHANGED <<fb_nextId, fb_requests>>
    /\ UNCHANGED <<gatewayv, agentv, laterv>>

FeedbackNext ==
    \/ FbReceive
    \/ FbCheck
    \/ FbPutItem
    \/ FbExcept
    \/ FbReturn

FeedbackSpec == Init /\ [][FeedbackNext]_vars

\* ===================================================== agent entry point
\* agent_stream(payload) of the two patterns.  The steps of one invocation:
\* the check of the required fields, the call of get_gateway_access_token,
\* the rest of the try block, and the except clause.  ag_stream collects the
\* events the generator yields.

MissingFieldsMsg == "Missing required fields: prompt, userId, or runtimeSessionId"
NotSubscriptableMsg == "'coroutine' object is not subscriptable"

AllPresent_Any(payload) == \E k \in PayloadKeys : payload[k] = "given"

\* all([user_query, user_id, session_id]): None and "" are falsy
AllPresent(payload) == \A k \in PayloadKeys : payload[k] = "given"

get_gateway_access_token_Unchecked(env) ==
    IF ~env.ssm THEN Raised("ParameterNotFound")
    ELSE Returned(StrValue("token"))

\* get_gateway_access_token (gateway_access_token.py:28-92): what running its
\* body gives
get_gateway_access_token(env) ==
    IF ~env.ssm THEN Raised("ParameterNotFound")
    ELSE IF env.idp = "401" THEN Raised("Failed to get access token: 401")
    ELSE IF env.idp = "500" THEN Raised("Failed to get access token: 500")
    ELSE IF env.idp \in {"notoken", "emptytoken"}
    THEN Raised("No access_token in Cognito response")
    ELSE Returned(StrValue("token"))

\* get_gateway_access_token is declared "async def"; basic_agent.py:115 and
\* langgraph_agent.py:136 call it without await
TokenAwaited == FALSE

\* Calling a coroutine function returns a coroutine object and runs none of
\* its body; only awaiting it runs the body.
CallToken(env) ==
    IF TokenAwaited THEN get_gateway_access_token(env)
    ELSE Returned(Coroutine("get_gateway_access_token"))

\* access_token[:20] in the print that follows the call
Subscriptable(value) == value.t = "str"

Built(client) == [raises |-> "none", client |-> client]
NotBuilt(e) == [raises |-> e, client |-> NoClient]
GatewayClient(access_token) == [url |-> "gateway_url", bearer |-> access_token.v]

\* basic_agent.py create_gateway_mcp_client
strands_create_gateway_mcp_client(access_token, env) ==
    IF env.stack_name = "absent"
    THEN NotBuilt("STACK_NAME environment variable is required")
    ELSE IF env.stack_name = "invalid"
    THEN NotBuilt("Invalid STACK_NAME format")
    ELSE IF ~env.ssm
    THEN NotBuilt("Failed to retrieve SSM parameter")
    ELSE Built(GatewayClient(access_token))

\* langgraph_agent.py create_gateway_mcp_client: the client is bound to
\* gateway_client, and line 61 returns the name client, which is bound nowhere
langgraph_create_gateway_mcp_client(access_token, env) ==
    IF env.stack_name = "absent" THEN NotBuilt("'STACK_NAME'")
    ELSE IF ~env.ssm THEN NotBuilt("ParameterNotFound")
    ELSE NotBuilt("name 'client' is not defined")

\* json.loads(json.dumps(dict(event), default=str)): what json cannot
\* serialise goes through str(), the rest is unchanged
Roundtrip(ev) == [ev EXCEPT !.kind = "json"]

\* what the rest of the try block did: the client it built, the events it
\* yielded, and str(e) of the exception that ended it
Ran(client, yielded, e) == [client |-> client, yielded |-> yielded, exc |-> e]

\* basic_agent.py:116-140 and 183-184
strands_try(access_token, env) ==
    IF ~Subscriptable(access_token)
    THEN Ran(NoClient, <<>>, NotSubscriptableMsg)
    ELSE LET c == strands_create_gateway_mcp_client(access_token, env)
         IN  IF c.raises # "none" THEN Ran(NoClient, <<>>, c.raises)
             ELSE IF ~env.gateway
             THEN Ran(c.client, <<>>, "gateway: tools/list failed")
             ELSE IF ~env.memory
             THEN Ran(c.client, <<>>, "memory: service error")
             ELSE IF ~env.model
             THEN Ran(c.client, <<>>, "model: service error")
             ELSE Ran(c.client,
                      [i \in 1..Len(env.chunks) |-> Roundtrip(env.chunks[i])],
                      "none")

\* langgraph_agent.py:137-169
langgraph_try(access_token, env) ==
    IF ~Subscriptable(access_token)
    THEN Ran(NoClient, <<>>, NotSubscriptableMsg)
    ELSE LET c == langgraph_create_gateway_mcp_client(access_token, env)
         IN  IF c.raises # "none" THEN Ran(NoClient, <<>>, c.raises)
             ELSE IF ~env.gateway
             THEN Ran(c.client, <<>>, "gateway: tools/list failed")
             ELSE IF ~env.memory_id
             THEN Ran(c.client, <<>>,
                      "MEMORY_ID environment variable is required")
             ELSE IF ~env.memory
             THEN Ran(c.client, <<>>, "memory: service error")
             ELSE IF ~env.model
             THEN Ran(c.client, <<>>, "model: service error")
             ELSE Ran(c.client, env.chunks, "none")

\* the runtime calls agent_stream(payload)
AgReceive ==
    /\ ag_pc = "idle"
    /\ ag_pattern' \in Patterns
    /\ ag_payload' \in Payloads
    /\ ag_pc' = "validate"
    /\ UNCHANGED <<ag_env, ag_access_token, ag_client, ag_exc, ag_stream>>
    /\ UNCHANGED <<gatewayv, feedbackv, laterv>>

\* basic_agent.py:163-172, langgraph_agent.py:119-128; from here on the
\* environment's answers to this invocation are fixed
AgValidate ==
    /\ ag_pc = "validate"
    /\ IF ~AllPresent(ag_payload)
       THEN /\ ag_stream' = Append(ag_stream, ErrorEvent(MissingFieldsMsg))
            /\ ag_pc' = "done"
            /\ UNCHANGED ag_env
       ELSE /\ ag_env' \in Envs
            /\ ag_pc' = "token"
            /\ UNCHANGED ag_stream
    /\ UNCHANGED <<ag_pattern, ag_payload, ag_access_token, ag_client, ag_exc>>
    /\ UNCHANGED <<gatewayv, feedbackv, laterv>>

\* strands: agent_stream line 180 and create_basic_agent lines 87-115;
\* langgraph: agent_stream lines 130-136
AgGetToken ==
    /\ ag_pc = "token"
    /\ LET r == CallToken(ag_env)
       IN  IF ag_pattern = "strands" /\ ~ag_env.memory_id
           THEN /\ ag_exc' = "MEMORY_ID environment variable is required"
                /\ ag_pc' = "except"
                /\ UNCHANGED ag_access_token
           ELSE IF r.raises # "none"
           THEN /\ ag_exc' = r.raises
                /\ ag_pc' = "except"
                /\ UNCHANGED ag_access_token
           ELSE /\ ag_access_token' = r.value
                /\ ag_pc' = "try"
                /\ UNCHANGED ag_exc
    /\ UNCHANGED <<ag_pattern, ag_payload, ag_env, ag_client, ag_stream>>
    /\ UNCHANGED <<gatewayv, feedbackv, laterv>>

\* the rest of the try block: the print of the token, the client, the agent
\* and the streaming loop
AgTry ==
    /\ ag_pc = "try"
    /\ LET r == IF ag_pattern = "strands"
                THEN strands_try(ag_access_token, ag_env)
                ELSE langgraph_try(ag_access_token, ag_env)
       IN  /\ ag_client' = r.client
           /\ ag_stream' = ag_stream \o r.yielded
           /\ ag_exc' = r.exc
           /\ ag_pc' = IF r.exc = "none" THEN "done" ELSE "except"
    /\ UNCHANGED <<ag_pattern, ag_payload, ag_env, ag_access_token>>
    /\ UNCHANGED <<gatewayv, feedbackv, laterv>>

AgExcept_Twice ==
    /\ ag_pc = "except"
    /\ ag_stream' = ag_stream \o <<ErrorEvent(ag_exc), ErrorEvent(ag_exc)>>
    /\ ag_pc' = "done"
    /\ UNCHANGED <<ag_pattern, ag_payload, ag_env, ag_access_token, ag_client,
                   ag_exc>>
    /\ UNCHANGED <<gatewayv, feedbackv, laterv>>

\* basic_agent.py:186-189, langgraph_agent.py:171-179
AgExcept ==
    /\ ag_pc = "except"
    /\ ag_stream' = Append(ag_stream, ErrorEvent(ag_exc))
    /\ ag_pc' = "done"
    /\ UNCHANGED <<ag_pattern, ag_payload, ag_env, ag_access_token, ag_client,
                   ag_exc>>
    /\ UNCHANGED <<gatewayv, feedbackv, laterv>>

\* the generator is exhausted; the next request starts afresh
AgReturn ==
    /\ ag_pc = "done"
    /\ ag_pc' = "idle"
    /\ ag_pattern' = "none"
    /\ ag_payload' = NoPayload
    /\ ag_env' = NoEnv
    /\ ag_access_token' = NoValue
    /\ ag_client' = NoClient
    /\ ag_exc' = "none"
    /\ ag_stream' = <<>>
    /\ UNCHANGED <<gatewayv, feedbackv, laterv>>

AgentNext ==
    \/ AgReceive
    \/ AgValidate
    \/ AgGetToken
    \/ AgTry
    \/ AgExcept
    \/ AgReturn

AgentSpec == Init /\ [][AgentNext]_vars

\* ========================================================== token exchange
\* One awaited run of get_gateway_access_token: the three configuration
\* lookups, then the one POST and the checks of its answer.

MaxTokenCalls == 3          \* runs of the token exchange, one after another

\* the environment of a run, as far as the token exchange reads it
TokenEnvs ==
    { e \in Envs : /\ e.memory_id /\ e.gateway /\ e.memory /\ e.model
                   /\ e.chunks = <<>> }

\* gateway_access_token.py:39-49: stack name, region and the three
\* get_ssm_parameter calls, which raise what the configuration store raises
TkCall ==
    /\ tk_pc = "idle"
    /\ tk_calls < MaxTokenCalls
    /\ tk_calls' = tk_calls + 1
    /\ tk_env' \in TokenEnvs
    /\ tk_posts' = 0
    /\ IF tk_env'.ssm
       THEN tk_pc' = "post" /\ tk_result' = Raised("pending")
       ELSE tk_pc' = "returned" /\ tk_result' = get_gateway_access_token(tk_env')
    /\ UNCHANGED <<gatewayv, feedbackv, agentv>>
    /\ UNCHANGED <<toolv, racev, deployv, interpv>>

\* gateway_access_token.py:54-92: requests.post and what follows it
TkPost ==
    /\ tk_pc = "post"
    /\ tk_posts' = tk_posts + 1
    /\ tk_result' = get_gateway_access_token(tk_env)
    /\ tk_pc' = "returned"
    /\ UNCHANGED <<tk_env, tk_calls>>
    /\ UNCHANGED <<gatewayv, feedbackv, agentv>>
    /\ UNCHANGED <<toolv, racev, deployv, interpv>>

\* the caller has the result
TkReturn ==
    /\ tk_pc = "returned"
    /\ tk_pc' = "idle"
    /\ UNCHANGED <<tk_env, tk_posts, tk_result, tk_calls>>
    /\ UNCHANGED <<gatewayv, feedbackv, agentv>>
    /\ UNCHANGED <<toolv, racev, deployv, interpv>>

TokenSpec == Init /\ [][TkCall \/ TkPost \/ TkReturn]_vars

\* ============================================================= sample tool
\* handler(event, context) of the sample tool.  A tool name is the sequence of
\* its characters, so that index() and the slice are computed as Python does.

MaxParts == 3               \* pieces a tool name is put together from

Delimiter_Two == <<"_", "_">>

\* delimiter = "___"
Delimiter == <<"_", "_", "_">>

\* "sample_tool"
SampleToolName == <<"s", "a", "m", "p", "l", "e", "_", "t", "o", "o", "l">>

\* sample_tool_lambda.py:48-74.  str.index gives the first occurrence and
\* raises ValueError when there is none; a context without client_context,
\* without custom or without the key raises too; every exception is caught.
sample_tool_handler(ev, context) ==
    LET Internal(e) == [keys |-> {"error"}, content |-> <<>>,
                        error |-> <<"Internal server error", e>>]
        name == context.toolName
        d == Delimiter
        occurrences == {i \in 1..(Len(name) - Len(d) + 1) :
                      SubSeq(name, i, i + Len(d) - 1) = d}
        index == CHOOSE i \in occurrences : \A j \in occurrences : i <= j
        tool_name == SubSeq(name, index + Len(d), Len(name))
    IN  IF context.kind = "no_client_context" THEN Internal("AttributeError")
        ELSE IF context.kind = "no_custom" THEN Internal("TypeError")
        ELSE IF context.kind = "no_key" THEN Internal("KeyError")
        ELSE IF occurrences = {} THEN Internal("substring not occurrences")
        ELSE IF tool_name = SampleToolName
        THEN [keys |-> {"content"},
              content |-> <<"text", "Hello", IF ev.name = "absent"
                                              THEN "World" ELSE ev.name>>,
              error |-> <<>>]
        ELSE [keys |-> {"error"}, content |-> <<>>,
              error |-> <<"This Lambda only supports 'sample_tool'">>
                            \o tool_name]

\* the gateway invokes the Lambda with the tool's arguments and its metadata
ToolInvoke ==
    LET Pieces == {<<"T">>, <<"_">>, <<"_", "_", "_">>, SampleToolName}
        Join(ps) == IF Len(ps) = 0 THEN <<>>
                    ELSE IF Len(ps) = 1 THEN ps[1]
                    ELSE IF Len(ps) = 2 THEN ps[1] \o ps[2]
                    ELSE ps[1] \o ps[2] \o ps[3] \o
                         (IF Len(ps) > 3 THEN ps[4] ELSE <<>>)
        ToolNames == UNION { {Join(ps) : ps \in [1..k -> Pieces]} : k \in 0..MaxParts }
    IN  /\ tool_event' \in [name : {"absent", "Bob"}]
        /\ tool_context' \in
              [kind : {"ok"}, toolName : ToolNames]
              \cup [kind : {"no_client_context", "no_custom", "no_key"},
                    toolName : {<<>>}]
        /\ tool_result' = sample_tool_handler(tool_event', tool_context')
        /\ UNCHANGED <<gatewayv, feedbackv, agentv>>
        /\ UNCHANGED <<tokenv, racev, deployv, interpv>>

ToolSpec == Init /\ [][ToolInvoke]_vars

\* ================================================== concurrent Create events
\* Create invocations running in separate Lambda instances against one
\* control plane.  Each is cut at its calls to the control plane: the
\* listing, the work on a gateway found, create_gateway, and the rest of the
\* create flow.  rc_gateways[g] is the gateway with id g.

\* ids of the gateways named name
RcMatching(name) ==
    {g \in 1..Len(rc_gateways) : rc_gateways[g].name = name}

\* handler and create_gateway, lines 19-46
RcInvoke(p) ==
    /\ rc_proc[p].pc = "idle"
    /\ \E n \in Names :
          rc_proc' = [rc_proc EXCEPT ![p].pc = "list", ![p].name = n]
    /\ UNCHANGED rc_gateways
    /\ UNCHANGED <<gatewayv, feedbackv, agentv, tokenv, toolv, deployv, interpv>>

\* lines 49-54: list_gateways and the search for gateway_name; an exception
\* is caught on line 79
RcList(p) ==
    /\ rc_proc[p].pc = "list"
    /\ \/ /\ RcMatching(rc_proc[p].name) = {}
          /\ rc_proc' = [rc_proc EXCEPT ![p].pc = "create",
                                        ![p].seen = 1..Len(rc_gateways)]
       \/ \E g \in RcMatching(rc_proc[p].name) :
            rc_proc' = [rc_proc EXCEPT ![p].pc = "found",
                                       ![p].seen = 1..Len(rc_gateways),
                                       ![p].gateway_id = g]
       \/ rc_proc' = [rc_proc EXCEPT ![p].pc = "create",
                                     ![p].faulted = TRUE]
    /\ UNCHANGED rc_gateways
    /\ UNCHANGED <<gatewayv, feedbackv, agentv, tokenv, toolv, deployv, interpv>>

\* lines 55-78: the gateway found is given its target, the keys are written
\* and SUCCESS is reported; an exception is caught on line 79
RcFound(p) ==
    /\ rc_proc[p].pc = "found"
    /\ \/ rc_proc' = [rc_proc EXCEPT ![p].pc = "done",
                                     ![p].status = "SUCCESS"]
       \/ rc_proc' = [rc_proc EXCEPT ![p].pc = "create",
                                     ![p].gateway_id = 0,
                                     ![p].faulted = TRUE]
    /\ UNCHANGED rc_gateways
    /\ UNCHANGED <<gatewayv, feedbackv, agentv, tokenv, toolv, deployv, interpv>>

\* Variant of RcCreate in which the control plane accepts one gateway per
\* name: C27 must tell it apart
RcCreate_UniqueNames(p) ==
    /\ rc_proc[p].pc = "create"
    /\ RcMatching(rc_proc[p].name) = {}
    /\ rc_gateways' = Append(rc_gateways, [name |-> rc_proc[p].name, by |-> p])
    /\ rc_proc' = [rc_proc EXCEPT ![p].pc = "rest",
                                  ![p].gateway_id = Len(rc_gateways) + 1]
    /\ UNCHANGED <<gatewayv, feedbackv, agentv, tokenv, toolv, deployv, interpv>>

\* lines 82-100: create_gateway of the control plane, called without
\* another look at the gateways that exist; an exception reaches the handler
RcCreate(p) ==
    /\ rc_proc[p].pc = "create"
    /\ \/ /\ rc_gateways' = Append(rc_gateways,
                                   [name |-> rc_proc[p].name, by |-> p])
          /\ rc_proc' = [rc_proc EXCEPT ![p].pc = "rest",
                                        ![p].gateway_id = Len(rc_gateways) + 1]
       \/ /\ rc_proc' = [rc_proc EXCEPT ![p].pc = "done",
                                        ![p].status = "FAILED",
                                        ![p].faulted = TRUE]
          /\ UNCHANGED rc_gateways
    /\ UNCHANGED <<gatewayv, feedbackv, agentv, tokenv, toolv, deployv, interpv>>

\* lines 101-124 and 35-37: the wait, the target, the keys and the callback
RcRest(p) ==
    /\ rc_proc[p].pc = "rest"
    /\ \/ rc_proc' = [rc_proc EXCEPT ![p].pc = "done",
                                     ![p].status = "SUCCESS"]
       \/ rc_proc' = [rc_proc EXCEPT ![p].pc = "done",
                                     ![p].status = "FAILED",
                                     ![p].faulted = TRUE]
    /\ UNCHANGED rc_gateways
    /\ UNCHANGED <<gatewayv, feedbackv, agentv, tokenv, toolv, deployv, interpv>>

RaceSpec ==
    Init /\ [][\E p \in 1..MaxRacers :
                 \/ RcInvoke(p)
                 \/ RcList(p)
                 \/ RcFound(p)
                 \/ RcCreate(p)
                 \/ RcRest(p)]_vars

\* ======================================================= deployment script
\* One run of deploy-with-codebuild.py: main() up to the statement at which it
\* ends, then the atexit handler registered on line 562.

\* main, lines 541-660.  ends is the step at which main returns or raises:
\* the three early returns, a step that raises, or the build's final status.
\* The three names are set together on lines 598-600, before anything is
\* created.
main ==
    /\ dp_pc = "main"
    /\ \E ends \in 1..13 :
        LET step == <<"credentials", "region", "stack_name", "zip",
                      "create_bucket", "upload", "create_role",
                      "attach_policy", "create_project", "start_build",
                      "stream_logs", "FAILED", "SUCCEEDED">>[ends]
        IN  /\ dp_resources' = [r \in {"project", "role", "bucket"} |-> ends > 3]
            /\ dp_made' = (IF ends > 5 THEN {"bucket"} ELSE {})
                          \cup (IF ends > 7 THEN {"role"} ELSE {})
                          \cup (IF ends > 9 THEN {"project"} ELSE {})
            /\ dp_exit' = IF step = "SUCCEEDED" THEN "return 0"
                          ELSE IF ends <= 3 \/ step = "FAILED" THEN "return 1"
                          ELSE step
    /\ dp_pc' = "atexit"
    /\ UNCHANGED dp_attempts
    /\ UNCHANGED <<gatewayv, feedbackv, agentv, tokenv, toolv, racev, interpv>>

\* cleanup_resources, lines 454-535, called by the atexit handler.  Each
\* deletion ends well, with a non-zero exit (CalledProcessError, caught and
\* logged) or with run_command's timeout of line 83 (TimeoutExpired, which
\* no except clause of cleanup_resources names).
cleanup_resources ==
    /\ dp_pc = "atexit"
    /\ \E outcome \in [{"project", "bucket", "role"} ->
                          {"deleted", "CalledProcessError", "TimeoutExpired"}] :
        LET Attempt(r) == <<[resource |-> r, outcome |-> outcome[r]]>>
            project == IF dp_resources["project"] THEN Attempt("project")
                       ELSE <<>>
            bucket == IF dp_resources["bucket"] THEN Attempt("bucket") ELSE <<>>
            role == IF dp_resources["role"] THEN Attempt("role") ELSE <<>>
            Raises(a) == a # <<>> /\ a[1].outcome = "TimeoutExpired"
        IN  dp_attempts' =
                IF Raises(project) THEN project
                ELSE IF Raises(bucket) THEN project \o bucket
                ELSE project \o bucket \o role
    /\ dp_pc' = "gone"
    /\ UNCHANGED <<dp_resources, dp_made, dp_exit>>
    /\ UNCHANGED <<gatewayv, feedbackv, agentv, tokenv, toolv, racev, interpv>>

DeploySpec == Init /\ [][main \/ cleanup_resources]_vars

\* ==================================================== CodeInterpreterTools
\* One CodeInterpreterTools object and the calls made on it, one after
\* another.  start(), invoke() and stop() are calls to the service, which
\* succeed or raise as the environment chooses.

MaxInterpCalls == 6         \* calls made on the object

\* execute_python, lines 38-71, with _get_code_interpreter_client, lines
\* 22-30, which it calls on line 52, outside its try block.  Line 27 caches
\* the new client before line 28 starts it.
execute_python ==
    /\ ci_calls < MaxInterpCalls
    /\ ci_calls' = ci_calls + 1
    /\ \E start_ok \in BOOLEAN, invoke_outcome \in {"results", "error"} :
          IF ci_code_client.cached
          THEN /\ UNCHANGED <<ci_code_client, ci_starts>>
               /\ ci_last' = [op |-> "execute_python",
                              outcome |-> invoke_outcome,
                              invoked |-> TRUE,
                              on_started |-> ci_code_client.started]
          ELSE /\ ci_code_client' = [cached |-> TRUE, started |-> start_ok,
                                     made |-> ci_calls + 1]
               /\ ci_starts' = ci_starts + 1
               /\ ci_last' = [op |-> "execute_python",
                              outcome |-> IF start_ok THEN invoke_outcome
                                          ELSE "raised",
                              invoked |-> start_ok,
                              on_started |-> start_ok]
    /\ UNCHANGED <<gatewayv, feedbackv, agentv, tokenv, toolv, racev, deployv>>

\* cleanup, lines 32-36
cleanup ==
    /\ ci_calls < MaxInterpCalls
    /\ ci_calls' = ci_calls + 1
    /\ ci_starts' = 0
    /\ \E stop_ok \in BOOLEAN :
          IF ~ci_code_client.cached
          THEN /\ UNCHANGED ci_code_client
               /\ ci_last' = [op |-> "cleanup", outcome |-> "nothing to do",
                              invoked |-> FALSE, on_started |-> FALSE]
          ELSE IF stop_ok
          THEN /\ ci_code_client' = [cached |-> FALSE, started |-> FALSE,
                                     made |-> 0]
               /\ ci_last' = [op |-> "cleanup", outcome |-> "stopped",
                              invoked |-> FALSE, on_started |-> FALSE]
          ELSE /\ UNCHANGED ci_code_client
               /\ ci_last' = [op |-> "cleanup", outcome |-> "raised",
                              invoked |-> FALSE, on_started |-> FALSE]
    /\ UNCHANGED <<gatewayv, feedbackv, agentv, tokenv, toolv, racev, deployv>>

InterpSpec == Init /\ [][execute_python \/ cleanup]_vars

\* ------------------------------------------------------------------ claims
\* C1: one invocation sends exactly one callback, on every exit path, and the
\* callback is the last thing the invocation does that the outside can see:
\* at most one PUT to the ResponseURL goes through, one has gone through when
\* handler() returns, and no call, pause or second PUT follows it.
C1_OneCallbackSentLast ==
    /\ Cardinality({i \in 1..Len(callbacks) : callbacks[i].ok}) <= 1
    /\ (pc = "done" /\ ~raised) =>
            Cardinality({i \in 1..Len(callbacks) : callbacks[i].ok}) = 1
    /\ \A i \in 1..Len(log) : (log[i].op = "PUT" /\ log[i].ok) => i = Len(log)

\* C2: a Create run right after a successful Create of the same GatewayName,
\* with no call failing, leaves exactly one gateway of that name: over the
\* two invocations create_gateway was called once, and the second one has
\* updated the gateway's target and created none.
C2_SecondCreateReuses ==
    (/\ pc = "done"
     /\ event.RequestType = "Create"
     /\ event.ApiSpecOk
     /\ prev.name = event.GatewayName
     /\ faults = 0)
    => /\ Cardinality({g \in GwIds : /\ gateways[g].exists
                                     /\ gateways[g].name = event.GatewayName}) = 1
       /\ prev.creates + Count("create_gateway") = 1
       /\ Count("update_gateway_target") = 1
       /\ Count("create_gateway_target") = 0
       /\ \A g \in GwIds :
             (gateways[g].exists /\ gateways[g].name = event.GatewayName)
                => Len(gateways[g].targets) = 1
       /\ Reported("SUCCESS")

C2_Witness ==
    /\ pc = "done"
    /\ event.RequestType = "Create"
    /\ prev.name = event.GatewayName
    /\ prev.creates = 1
    /\ faults = 0
    /\ Count("update_gateway_target") = 1
    /\ Reported("SUCCESS")

\* C3: in a Create, once list_gateways has returned a gateway named
\* GatewayName, create_gateway of the control plane is not called in that
\* invocation, whatever becomes of the calls that follow.
C3_FoundNeverCreates ==
    (event.RequestType = "Create" /\ found) => Count("create_gateway") = 0

\* C4: create_target_with_retry makes at most 5 attempts; the pauses after
\* the not-ready failures are 1, 2, 4, 8, 16 seconds in that order; after the
\* fifth failure it raises; a success returns the target id at once, with no
\* further attempt.
C4_BoundedBackoff ==
    /\ pc = "ctr_attempt" =>
          /\ attempt <= 5
          /\ sleeps = SubSeq(<<1, 2, 4, 8, 16>>, 1, attempt)
    /\ (pc = "ctr_attempt" /\ attempt = 5) =>
          /\ ~ENABLED CreateTargetAttempt
          /\ ENABLED CreateTargetExhausted
    /\ (log # <<>> /\ log[Len(log)].op = "create_gateway_target") =>
          /\ pc # "ctr_attempt"
          /\ attempt = 0
          /\ target_id = log[Len(log)].arg

C4_Witness ==
    /\ pc = "ctr_attempt"
    /\ attempt = 5
    /\ sleeps = <<1, 2, 4, 8, 16>>

\* C5: a failed create_gateway_target is retried exactly when str(e) contains
\* CREATING or UPDATING; any other failure is raised to the caller at once,
\* with no pause and no further call.
C5_RetryOnlyNotReady ==
    /\ (err # NoExc /\ \E i \in 1..Len(err) : err[i] \in {"CREATING", "UPDATING"})
          => /\ pc = "ctr_attempt"
             /\ attempt > 0
             /\ Len(sleeps) = attempt
    /\ (err # NoExc /\ \A i \in 1..Len(err) : err[i] \notin {"CREATING", "UPDATING"})
          => /\ pc \in {"h_except", "cg_create"}
             /\ Len(sleeps) = attempt
             /\ pc = "h_except" => exc = err

C5_Witness ==
    /\ err = <<"gateway", "is", "creating">>
    /\ pc = "h_except"
    /\ attempt = 2
    /\ sleeps = <<1, 2>>

\* C6: wait_for_gateway_ready always terminates: it returns once the status
\* is READY, raises as soon as it is FAILED or DELETING, polls again after
\* 10 s for any other status, and raises a timeout once 120 s have elapsed.
C6_WaitTerminates ==
    /\ (pc = "wfr") ~> (pc # "wfr")
    /\ [](pc = "cg_get_new" => status = "READY")
    /\ [](status \in {"FAILED", "DELETING"} =>
            /\ pc = "h_except"
            /\ exc = <<"Gateway", "in", "unexpected", "status", status>>)
    /\ [][(pc = "wfr" /\ pc' = "wfr") =>
            /\ status' \notin {"READY", "FAILED", "DELETING"}
            /\ elapsed' >= elapsed + 10]_vars
    /\ [][(pc = "wfr" /\ elapsed >= 120) =>
            /\ pc' = "h_except"
            /\ exc' = <<"Gateway", "not", "ready", "after", "120s">>]_vars

C6_Witness ==
    /\ pc = "h_except"
    /\ exc = <<"Gateway", "not", "ready", "after", "120s">>
    /\ status \in {"CREATING", "UPDATING"}

C8_DeleteReportsSuccess ==
    (/\ event.RequestType = "Delete"
     /\ \A i \in 1..Len(callbacks) : callbacks[i].ok)
    => /\ pc # "h_except"
       /\ ~raised
       /\ \A i \in 1..Len(callbacks) : callbacks[i].body.Status = "SUCCESS"
       /\ pc = "done" => Len(callbacks) = 1

C8_Witness ==
    /\ event.RequestType = "Delete"
    /\ pc = "done"
    /\ ~raised
    /\ faults > 0
    /\ Len(callbacks) = 1
    /\ callbacks[1].ok
    /\ callbacks[1].body.Status = "SUCCESS"
    /\ \E i \in 1..Len(log) : log[i].op = "delete_gateway_target" /\ ~log[i].ok

\* C9: an Update whose GatewayName differs from the old one runs the delete
\* flow on the old gateway, then the whole create flow; it never calls
\* update_gateway_target on the old gateway, and the PhysicalResourceId it
\* reports is the new gateway's id, not the old one's.
C9_ReplaceReportsNewGateway ==
    (event.RequestType = "Update" /\ event.OldGatewayName # event.GatewayName)
    => /\ \A i \in 1..Len(log) :
             log[i].op = "update_gateway_target"
                => log[i].gw # event.PhysicalResourceId
       /\ \A i, j \in 1..Len(log) :
             (/\ log[i].op \in {"create_gateway", "create_gateway_target",
                                "update_gateway_target"}
              /\ log[j].op \in {"delete_gateway_target", "delete_gateway"})
                => j < i
       /\ \A i \in 1..Len(callbacks) :
             (callbacks[i].ok /\ callbacks[i].body.Status = "SUCCESS")
                => callbacks[i].body.PhysicalResourceId # event.PhysicalResourceId

\* C10: when a Create or an Update reports SUCCESS with the gateway's Data,
\* the three keys gateway_url, target_id and gateway_id have been written,
\* with the values the callback's Data carries.
C10_SsmMatchesData ==
    \A i \in 1..Len(callbacks) :
        (/\ callbacks[i].ok
         /\ callbacks[i].body.Status = "SUCCESS"
         /\ callbacks[i].body.Data # NoData
         /\ event.RequestType \in {"Create", "Update"})
        => /\ ssm["gateway_url"] = callbacks[i].body.Data.GatewayUrl
           /\ ssm["target_id"] = SsmValue("target", callbacks[i].body.Data.TargetId)
           /\ ssm["gateway_id"] = SsmValue("gateway", callbacks[i].body.Data.GatewayId)

\* C11: create_or_update_target falls through to the create path only if the
\* gateway has no target: when list_gateway_targets returns a target, the
\* first one is updated in place and create_gateway_target is not called.
C11_UpdateInPlace ==
    /\ (path \in {"check", "update"} /\ pc = "ctr_attempt")
          => Exists(gateway_id) /\ gateways[gateway_id].targets = <<>>
    /\ \A i, j \in 1..Len(log) :
          (/\ log[i].op = "update_gateway_target"
           /\ log[j].op = "create_gateway_target"
           /\ log[i].gw = log[j].gw)
             => j < i

\* C12: between two lifecycle events every gateway has at most one target.
C12_AtMostOneTarget ==
    pc \in {"idle", "done"} =>
        \A g \in GwIds : gateways[g].exists => Len(gateways[g].targets) <= 1

\* C13: a POST whose body is an object in which sessionId, message or
\* feedbackType is missing or empty, or whose feedbackType is neither
\* 'positive' nor 'negative', is answered 400 and nothing is written.
C13_RequiredFields ==
    (/\ fb_event.httpMethod = "POST"
     /\ fb_event.body.kind = "object"
     /\ \/ fb_event.body.sessionId \in {Missing, Str(<<>>)}
        \/ fb_event.body.message \in {Missing, Str(<<>>)}
        \/ fb_event.body.feedbackType \in {Missing, Str(<<>>)}
        \/ fb_event.body.feedbackType \notin
              {Str(Word("positive")), Str(Word("negative"))})
    => /\ fb_written = <<>>
       /\ fb_pc \in {"handler", "responded"}
       /\ fb_pc = "responded" =>
             /\ fb_response.statusCode = 400
             /\ fb_response.body.error \in {RequiredMsg, FeedbackTypeMsg}

C13_Witness ==
    /\ fb_pc = "responded"
    /\ fb_event.body.kind = "object"
    /\ fb_event.body.sessionId = Str(<<Run("a", 1)>>)
    /\ fb_event.body.message = Str(<<Run("m", 1)>>)
    /\ fb_event.body.feedbackType = Str(Word("neutral"))
    /\ fb_event.claims.sub = "user-1"
    /\ fb_response.statusCode = 400

\* C14: a sessionId that holds a character other than letters, digits,
\* hyphen and underscore (a trailing newline included), or that is longer than
\* 100 characters, is answered 400 and nothing is written; 100 allowed
\* characters are accepted.
C14_SessionIdPattern ==
    /\ (/\ fb_pc = "responded"
        /\ fb_event.body.kind = "object"
        /\ fb_event.body.sessionId.t = "str"
        /\ \/ \E i \in 1..Len(fb_event.body.sessionId.s) :
                 fb_event.body.sessionId.s[i].ch \notin AllowedChars
           \/ Length(fb_event.body.sessionId.s) > 100)
       => /\ fb_response.statusCode = 400
          /\ fb_written = <<>>
    /\ (/\ fb_pc = "responded"
        /\ fb_event.body.sessionId = Str(<<Run("a", 100)>>))
       => fb_response.body.error # SessionIdMsg

\* C15: a POST whose body is absent, is not JSON, is JSON but no object, or
\* is an object with a sessionId, message or comment that is no string, is
\* answered 400 with a message that says why, never 500, and nothing is
\* written.
C15_MalformedIs400 ==
    (/\ fb_pc = "responded"
     /\ fb_event.httpMethod = "POST"
     /\ \/ fb_event.body.kind # "object"
        \/ fb_event.body.sessionId.t \in {"num", "list"}
        \/ fb_event.body.message.t \in {"num", "list"}
        \/ fb_event.body.comment.t \in {"num", "list"})
    => /\ fb_response.statusCode = 400
       /\ fb_response.body.error \notin {"none", "Internal server error"}
       /\ fb_written = <<>>

\* C16: in every record stored, message and comment are at most 5000
\* characters: a longer field is stored as its first 5000 characters, a field
\* of at most 5000 characters as it is.
C16_TruncatedTo5000 ==
    \A i \in 1..Len(fb_written) :
        LET item == fb_written[i]
            message == fb_event.body.message
            comment == fb_event.body.comment
        IN  /\ Length(item.message.s) <= 5000
            /\ Length(item.comment.s) <= 5000
            /\ item.message.s = IF Length(message.s) > 5000
                                THEN Take(message.s, 5000) ELSE message.s
            /\ item.comment.s = IF Length(comment.s) > 5000
                                THEN Take(comment.s, 5000) ELSE comment.s

C16_Witness ==
    /\ Len(fb_written) = 1
    /\ fb_event.body.message = Str(<<Run("m", 4999), Run("x", 2)>>)
    /\ fb_event.body.comment = Str(<<Run("c", 5000), Run("y", 1)>>)
    /\ fb_written[1].message = Str(<<Run("m", 4999), Run("x", 1)>>)
    /\ fb_written[1].comment = Str(<<Run("c", 5000)>>)

\* C17: a POST with a well-formed body that passes validation but without
\* identity claims (none, or an empty set) is answered 401 and nothing is
\* written; no record is ever written for a request without claims.
C17_NoClaimsNoRecord ==
    /\ (/\ fb_pc = "responded"
        /\ fb_event.httpMethod = "POST"
        /\ fb_event.body.kind = "object"
        /\ fb_event.body.message.t = "str"
        /\ fb_event.body.comment.t \in {"str", "missing"}
        /\ validate_feedback_request(fb_event.body) = Outcome("none", "none")
        /\ (~fb_event.claims.present \/ fb_event.claims.empty))
       => /\ fb_response = Response(401, "Unauthorized", FALSE, 0)
          /\ fb_written = <<>>
    /\ (~fb_event.claims.present \/ fb_event.claims.empty)
          => fb_written = <<>> /\ fb_pc # "put_item"

C17_Witness ==
    /\ fb_pc = "responded"
    /\ fb_event.body.sessionId = Str(<<Run("a", 100)>>)
    /\ fb_event.body.message = Str(<<Run("m", 5000)>>)
    /\ fb_event.body.feedbackType = Str(Word("negative"))
    /\ fb_event.claims = [present |-> TRUE, empty |-> TRUE, sub |-> "none"]
    /\ fb_response.statusCode = 401

\* C18: a POST with a well-formed body that passes validation and carries
\* identity claims makes one storage write; when the write succeeds the
\* answer is 200 with success = true and the feedbackId of the record
\* written; a request answered with another status has written no record.
C18_OneWriteThen200 ==
    /\ (/\ fb_pc = "responded"
        /\ fb_event.httpMethod = "POST"
        /\ fb_event.body.kind = "object"
        /\ fb_event.body.message.t = "str"
        /\ fb_event.body.comment.t \in {"str", "missing"}
        /\ validate_feedback_request(fb_event.body) = Outcome("none", "none")
        /\ fb_event.claims.present
        /\ ~fb_event.claims.empty)
       => \/ /\ Len(fb_written) = 1
             /\ fb_response =
                  Response(200, "none", TRUE, fb_written[1].feedbackId)
             /\ fb_written[1].feedbackId = fb_nextId - 1
             /\ fb_exc = "none"
          \/ /\ fb_written = <<>>
             /\ fb_exc \in ClientErrors \cup OtherErrors
             /\ fb_response.statusCode = 500
    /\ Len(fb_written) <= 1
    /\ (fb_pc = "responded" /\ fb_response.statusCode # 200)
          => fb_written = <<>>
    /\ (fb_written # <<>>) =>
          /\ fb_pc = "responded"
          /\ fb_response.statusCode = 200
          /\ fb_event.httpMethod = "POST"

C18_Witness ==
    /\ fb_pc = "responded"
    /\ fb_requests = 2
    /\ Len(fb_written) = 1
    /\ fb_written[1].feedbackId = 2
    /\ fb_written[1].userId = "unknown"
    /\ fb_response = Response(200, "none", TRUE, 2)

\* C19: when the storage write fails the answer is 500 with the body
\* {'error': 'Internal server error'}: no feedbackId, nothing of the storage
\* error, and the handler returns instead of raising.
C19_StorageFailureIs500 ==
    /\ (fb_pc = "responded" /\ fb_exc \in ClientErrors \cup OtherErrors)
          => /\ fb_response =
                  Response(500, "Internal server error", FALSE, 0)
             /\ fb_response.body.error # fb_exc
             /\ fb_written = <<>>
    /\ fb_pc = "except" => ENABLED FbExcept

C19_Witness ==
    /\ fb_pc = "responded"
    /\ fb_exc = "ProvisionedThroughputExceededException"
    /\ fb_response.statusCode = 500

\* C20: a request with prompt, userId and runtimeSessionId present, handled
\* while the configuration store, the identity provider, the gateway, the
\* model and the memory all answer, ends with a bearer token obtained, the
\* gateway tool client built, and the stream holding the model's chunks in
\* the order they were produced and no error event -- in both patterns.
AllSucceed(env) ==
    /\ env.stack_name = "ok"
    /\ env.memory_id
    /\ env.ssm
    /\ env.idp = "200"
    /\ env.gateway
    /\ env.memory
    /\ env.model

C20_StreamsChunks ==
    (ag_pc = "done" /\ AllPresent(ag_payload) /\ AllSucceed(ag_env))
       => /\ ag_access_token.t = "str"
          /\ ag_client # NoClient
          /\ ag_client.bearer = ag_access_token.v
          /\ Len(ag_stream) = Len(ag_env.chunks)
          /\ \A i \in 1..Len(ag_stream) :
                /\ ag_stream[i].status = "chunk"
                /\ ag_stream[i].n = i

\* C21: when prompt, userId or runtimeSessionId is absent or empty, the
\* stream of agent_stream is exactly one error event, and the invocation
\* never enters the try block: no token exchange, no configuration lookup,
\* no gateway call and no agent construction.
C21_MissingFieldsFailFast ==
    (\E k \in PayloadKeys : ag_payload[k] # "given")
       => /\ ag_pc \in {"idle", "validate", "done"}
          /\ ag_env = NoEnv
          /\ ag_access_token = NoValue
          /\ ag_client = NoClient
          /\ ag_exc = "none"
          /\ ag_pc = "done" => ag_stream = <<ErrorEvent(MissingFieldsMsg)>>
          /\ ag_pc = "validate" => ag_stream = <<>>

C21_Witness ==
    /\ ag_pc = "done"
    /\ ag_payload["prompt"] = "given"
    /\ ag_payload["userId"] = "empty"
    /\ ag_payload["runtimeSessionId"] = "given"
    /\ ag_stream = <<ErrorEvent(MissingFieldsMsg)>>

C23_TokenOnlyOn200 ==
    /\ tk_posts <= 1
    /\ tk_pc = "returned" =>
          /\ tk_result.raises = "none" <=> (tk_env.ssm /\ tk_env.idp = "200")
          /\ tk_result.raises = "none" => tk_result.value = StrValue("token")
          /\ tk_result.raises # "none" => tk_result.value = NoValue
          /\ tk_env.ssm => tk_posts = 1

C23_Witness ==
    /\ tk_pc = "returned"
    /\ tk_calls = 2
    /\ tk_env.idp = "emptytoken"
    /\ tk_posts = 1
    /\ tk_result = Raised("No access_token in Cognito response")

\* C24: the sample tool answers with a content array exactly when the tool
\* name holds "___" and what follows its first occurrence is "sample_tool";
\* with any other tool name, without the delimiter and without the context
\* metadata it answers with an error; the answer holds exactly one of the
\* keys content and error.
C24_SampleToolOnly ==
    LET name == tool_context.toolName
        HasDelimiterAt(i) == /\ i + 2 <= Len(name)
                             /\ name[i] = "_" /\ name[i+1] = "_" /\ name[i+2] = "_"
        Matches == /\ tool_context.kind = "ok"
                   /\ \E i \in 1..Len(name) :
                         /\ HasDelimiterAt(i)
                         /\ \A j \in 1..(i-1) : ~HasDelimiterAt(j)
                         /\ SubSeq(name, i + 3, Len(name)) =
                               <<"s", "a", "m", "p", "l", "e", "_", "t", "o", "o", "l">>
    IN  tool_context.kind # "none" =>
          /\ tool_result.keys = IF Matches THEN {"content"} ELSE {"error"}
          /\ Matches => /\ tool_result.content[1] = "text"
                        /\ tool_result.error = <<>>
          /\ ~Matches => /\ tool_result.content = <<>>
                         /\ tool_result.error # <<>>

C24_Witness ==
    /\ tool_context.kind = "ok"
    /\ tool_context.toolName = <<"_">> \o Delimiter \o SampleToolName
    /\ tool_result.keys = {"error"}

\* C25: in the create flow of a gateway the invocation has just created, no
\* create_gateway_target call is made before a get_gateway poll has answered
\* READY; when the wait ends with FAILED, DELETING or the timeout, the
\* invocation creates no target and writes no configuration-store key.
C25_TargetOnlyAfterReady ==
    LET NothingAfterCreate ==
            \A j \in 1..Len(log) :
                log[j].op = "create_gateway" =>
                    \A i \in (j + 1)..Len(log) :
                        /\ log[i].op # "create_gateway_target"
                        /\ log[i].op \notin SsmKeys
        NotReady(reason) ==
            \/ reason = <<"Gateway", "not", "ready", "after", "120s">>
            \/ \E s \in {"FAILED", "DELETING"} :
                  reason = <<"Gateway", "in", "unexpected", "status", s>>
    IN  /\ (path = "new" /\ status # "READY")
              => /\ pc \in {"wfr", "h_except"}
                 /\ NothingAfterCreate
        /\ \A c \in 1..Len(callbacks) :
              (event.RequestType = "Create" /\ NotReady(callbacks[c].body.Reason))
                 => /\ callbacks[c].body.Status = "FAILED"
                    /\ NothingAfterCreate
                    /\ \E j \in 1..Len(log) :
                          /\ log[j].op = "create_gateway" /\ log[j].ok
                          /\ gateways[log[j].gw].targets = <<>>

C25_Witness ==
    /\ pc = "done"
    /\ event.RequestType = "Create"
    /\ Len(callbacks) = 1
    /\ callbacks[1].body.Status = "FAILED"
    /\ callbacks[1].body.Reason = <<"Gateway", "not", "ready", "after", "120s">>
    /\ \E i \in 1..Len(log) : log[i].op = "create_gateway" /\ log[i].ok

\* C26: the handler reports FAILED, with the exception's message as Reason,
\* exactly when the RequestType is not Create, Update or Delete or an
\* exception leaves the Create or Update handling, and SUCCESS otherwise;
\* as long as every PUT to the ResponseURL goes through no exception leaves
\* the handler.
C26_FailedExactlyOnException ==
    LET AllSent == \A c \in 1..Len(callbacks) : callbacks[c].ok
        Statuses26 == {callbacks[c].body.Status : c \in 1..Len(callbacks)}
    IN  (pc = "done" /\ AllSent)
          => /\ ~raised
             /\ Statuses26 \in {{"SUCCESS"}, {"FAILED"}}
             /\ event.RequestType \notin {"Create", "Update", "Delete"}
                   => /\ Len(callbacks) = 1
                      /\ callbacks[1].body.Status = "FAILED"
                      /\ callbacks[1].body.Reason = <<"Unknown", "request", "type">>
             /\ event.RequestType = "Delete" => Statuses26 = {"SUCCESS"}
             /\ \A c \in 1..Len(callbacks) :
                   callbacks[c].body.Status = "FAILED"
                      => /\ callbacks[c].body.Reason # NoExc
                         /\ c = Len(callbacks)

\* C26, apart from an Update that renames the gateway: there the statement
\* holds
C26_ExceptNoRename ==
    event.GatewayName = event.OldGatewayName => C26_FailedExactlyOnException

\* C29: when a Create fails after its own create_gateway call succeeded, the
\* handler issues no delete_gateway call for the new gateway, the FAILED
\* callback carries the event's PhysicalResourceId (NONE for a Create) and
\* not the new gateway's id, and the gateway stays in the control plane.
C29_FailedCreateLeavesGateway ==
    \A j \in 1..Len(log), c \in 1..Len(callbacks) :
        (/\ pc = "done"
         /\ event.RequestType = "Create"
         /\ log[j].op = "create_gateway" /\ log[j].ok
         /\ callbacks[c].body.Status = "FAILED")
        => /\ \A i \in 1..Len(log) :
                 log[i].op \in {"delete_gateway", "delete_gateway_target"}
                    => log[i].gw # log[j].gw
           /\ callbacks[c].body.PhysicalResourceId = event.PhysicalResourceId
           /\ callbacks[c].body.PhysicalResourceId = NONE
           /\ callbacks[c].body.PhysicalResourceId # log[j].gw
           /\ gateways[log[j].gw].exists
           /\ gateways[log[j].gw].name = event.GatewayName

C29_Witness ==
    /\ pc = "done"
    /\ event.RequestType = "Create"
    /\ Len(callbacks) = 1
    /\ callbacks[1].body.Status = "FAILED"
    /\ callbacks[1].body.Reason = <<"AccessDenied">>
    /\ \E j \in 1..Len(log) :
          /\ log[j].op = "create_gateway" /\ log[j].ok
          /\ gateways[log[j].gw].exists

\* C27: two Create invocations for one gateway name that run at the same
\* time can both pass the existence check and both call create_gateway.  An
\* invocation whose listing showed no gateway of its name goes on to
\* create_gateway whatever has been created since, and its call gives the
\* control plane one more gateway; without failing calls, two gateways of one
\* name come only from invocations neither of which had listed the other's
\* gateway, which sequential invocations cannot do.
C27_CreateRace ==
    /\ \A p \in 1..MaxRacers :
          rc_proc[p].pc = "create" => ENABLED RcCreate(p)
    /\ \A p \in 1..MaxRacers :
          rc_proc[p].gateway_id # 0 /\ rc_proc[p].pc \in {"rest", "done"}
             => /\ rc_proc[p].gateway_id \in RcMatching(rc_proc[p].name)
                /\ rc_proc[p].pc = "rest" =>
                      rc_gateways[rc_proc[p].gateway_id].by = p
    /\ \A g, h \in 1..Len(rc_gateways) :
          (/\ g < h
           /\ rc_gateways[g].name = rc_gateways[h].name
           /\ ~rc_proc[rc_gateways[g].by].faulted
           /\ ~rc_proc[rc_gateways[h].by].faulted)
          => /\ g \notin rc_proc[rc_gateways[h].by].seen
             /\ h \notin rc_proc[rc_gateways[g].by].seen
             /\ rc_gateways[g].by # rc_gateways[h].by

C27_Witness ==
    /\ Len(rc_gateways) = 2
    /\ rc_gateways[1].name = rc_gateways[2].name
    /\ rc_gateways[1].by # rc_gateways[2].by
    /\ \A p \in 1..2 : /\ rc_proc[p].pc = "done"
                       /\ rc_proc[p].status = "SUCCESS"
                       /\ ~rc_proc[p].faulted
                       /\ rc_proc[p].seen = {}

\* C28: when the deployment process has exited, every temporary resource
\* main created has had a delete attempt, whether main returned 0, returned 1
\* or raised; the attempts come in the order project, bucket, role; and a
\* deletion that failed has not kept the other resources from their attempts.
C28_CleanupOnEveryExit ==
    LET Attempted == {dp_attempts[i].resource : i \in 1..Len(dp_attempts)}
        Rank(r) == IF r = "project" THEN 1 ELSE IF r = "bucket" THEN 2 ELSE 3
    IN  dp_pc = "gone" =>
          /\ dp_made \subseteq Attempted
          /\ \A i, j \in 1..Len(dp_attempts) :
                i < j => Rank(dp_attempts[i].resource) < Rank(dp_attempts[j].resource)
          /\ \A i \in 1..Len(dp_attempts) :
                dp_attempts[i].outcome # "deleted"
                   => Attempted = {"project", "bucket", "role"}

\* C28, when no deletion runs into run_command's timeout: there the
\* statement holds
C28_ExceptTimeout ==
    (\A i \in 1..Len(dp_attempts) : dp_attempts[i].outcome # "TimeoutExpired")
       => C28_CleanupOnEveryExit

\* C30: a client is cached only while its session was started successfully;
\* between two cleanup() calls start() is called at most once; every invoke
\* is made on a client whose start() succeeded; a cleanup() that returns has
\* stopped the session and left the cache empty, and does nothing when no
\* client is cached.
C30_CachedOnlyWhileStarted ==
    /\ ci_code_client.cached => ci_code_client.started
    /\ ci_starts <= 1
    /\ ci_last.invoked => ci_last.on_started
    /\ (ci_last.op = "cleanup" /\ ci_last.outcome # "raised")
          => ~ci_code_client.cached
====
